---- MODULE Spec2Model ----
(***************************************************************************)
(* Model of the union-find structure of src/shared.rs and of the day 8     *)
(* clustering solver built on its private copy (src/day_08.rs).            *)
(***************************************************************************)
EXTENDS Integers, Sequences, FiniteSets, TLC

VARIABLES uf, last, pre,                              \* the UnionFind under test
          points, connections, pc, todo, small, d8uf, result   \* day 8

ufvars == <<uf, last, pre>>

d8vars == <<points, connections, pc, todo, small, d8uf, result>>

\* day 8, last_connection: the heap, the Option last_union (<<>> is None),
\* the pops made so far and the state before the latest pop.
VARIABLES heap, last_union, popped, lcpre

lcvars == <<heap, last_union, popped, lcpre>>

\* day 1, unlock: the rotations still to come, the locals position, zeros
\* and clicks, and what the dial itself would show: the sum of the deltas
\* applied and the zero counts derived from it.
VARIABLES d1input, position, zeros, clicks, d1pc, d1sum, d1landings, d1passes

d1vars == <<d1input, position, zeros, clicks, d1pc, d1sum, d1landings, d1passes>>

\* day 4, part_2: the grid, the locals removed and pending, the returned
\* count, for every insertion into removed the position and the number of
\* its roll neighbours not yet removed at that moment, and the number of
\* iterations of the while loop made so far.
VARIABLES d4grid, removed, pending, d4pc, d4result, d4log, d4steps

d4vars == <<d4grid, removed, pending, d4pc, d4result, d4log, d4steps>>

\* day 9, part_2: the vertex list, the axis tables xs and ys, grid, uf, the
\* cell index of the sweep, the three roots, max_area and the position of the
\* pair loop; the returned
\* value; and, kept beside them, the candidate interior roots seen by the
\* classification, the 0/1 grid left by the promotion and the latest query.
VARIABLES d9points, d9xs, d9ys, d9grid, d9uf, d9ix, d9roots, max_area, d9i,
          d9j, d9pc, d9result, d9candidates, d9mask, d9last

d9vars == <<d9points, d9xs, d9ys, d9grid, d9uf, d9ix, d9roots, max_area, d9i,
            d9j, d9pc, d9result, d9candidates, d9mask, d9last>>

\* day 8, Point::dist_sq at the width of its types: the two points, and the
\* outcome of the call.
VARIABLES dqself, dqother, dqpc, dqout

dqvars == <<dqself, dqother, dqpc, dqout>>

\* shared.rs, Index and IndexMut of Grid: the grid, the position given, the
\* grid before the call and the outcome of the call.
VARIABLES gxgrid, gxpos, gxpc, gxbefore, gxout

gxvars == <<gxgrid, gxpos, gxpc, gxbefore, gxout>>

\* day 3, part_2: the lines of the input, whether more digits may follow the
\* last line given, the line being read and the digits read of it, the
\* locals digits and res, and the value the latest line added to res.
VARIABLES d3input, d3more, d3row, d3line, d3digits, d3res, d3pc, d3added

d3vars == <<d3input, d3more, d3row, d3line, d3digits, d3res, d3pc, d3added>>

morevars == <<dqvars, gxvars, d3vars>>

extvars == <<lcvars, d1vars, d4vars, d9vars, morevars>>

vars == <<uf, last, pre, points, connections, pc, todo, small, d8uf, result, extvars>>

\* Largest UnionFind size explored from new() onwards.
MaxN == 5

\* Size of the UnionFind on which DeepScript is replayed: the smallest on
\* which union by size can build a parent chain of three links.
DeepN == 8

(***************************************************************************)
(* shared.rs: struct UnionFind { nodes: Vec<UFNode>, num_roots: usize }    *)
(* A UnionFind value is a record [nodes, num_roots]; nodes is a function   *)
(* from 0..len-1 to UFNode records [parent, size].                         *)
(***************************************************************************)
UFNode(parent, size) == [parent |-> parent, size |-> size]

NodeCount(u) == Cardinality(DOMAIN u.nodes)

UnionFind_new(size) ==
    [nodes |-> [parent \in 0..(size - 1) |-> UFNode(parent, 1)],
     num_roots |-> size]

\* Variant of the find loop that stores index where grand_parent belongs.
RECURSIVE find_loop_SelfParent(_, _)
find_loop_SelfParent(nodes, index) ==
    LET parent == nodes[index].parent IN
    IF index = parent
    THEN [nodes |-> nodes, ret |-> index]
    ELSE LET grand_parent == nodes[parent].parent
             nodes2 == [nodes EXCEPT ![index].parent = index]
         IN find_loop_SelfParent(nodes2, grand_parent)

\* The while loop of find: path halving. Yields the new nodes and the
\* returned index.
RECURSIVE find_loop(_, _)
find_loop(nodes, index) ==
    LET parent == nodes[index].parent IN
    IF index = parent
    THEN [nodes |-> nodes, ret |-> index]
    ELSE LET grand_parent == nodes[parent].parent
             nodes2 == [nodes EXCEPT ![index].parent = grand_parent]
         IN find_loop(nodes2, grand_parent)

\* Variant of find without the loop: one hop, returning the parent.
UnionFind_find_OneHop(u, index) ==
    [uf |-> u, ret |-> u.nodes[index].parent]

UnionFind_find(u, index) ==
    LET r == find_loop(u.nodes, index) IN
    [uf |-> [u EXCEPT !.nodes = r.nodes], ret |-> r.ret]

\* Variant of union that never decrements num_roots.
UnionFind_union_NoDecrement(u, a, b) ==
    LET f1 == UnionFind_find(u, a)
        f2 == UnionFind_find(f1.uf, b)
        r1 == f1.ret
        r2 == f2.ret
        u2 == f2.uf
    IN IF r1 = r2
       THEN [uf |-> u2, ret |-> FALSE]
       ELSE LET swap == u2.nodes[r1].size < u2.nodes[r2].size
                index1 == IF swap THEN r2 ELSE r1
                index2 == IF swap THEN r1 ELSE r2
                nodesA == [u2.nodes EXCEPT ![index2].parent = index1]
                nodesB == [nodesA EXCEPT ![index1].size =
                                nodesA[index1].size + nodesA[index2].size]
            IN [uf |-> [nodes |-> nodesB, num_roots |-> u2.num_roots],
                ret |-> TRUE]

\* Variant of union that never adds the absorbed root's size.
UnionFind_union_NoSizeAdd(u, a, b) ==
    LET f1 == UnionFind_find(u, a)
        f2 == UnionFind_find(f1.uf, b)
        r1 == f1.ret
        r2 == f2.ret
        u2 == f2.uf
    IN IF r1 = r2
       THEN [uf |-> u2, ret |-> FALSE]
       ELSE LET swap == u2.nodes[r1].size < u2.nodes[r2].size
                index1 == IF swap THEN r2 ELSE r1
                index2 == IF swap THEN r1 ELSE r2
                nodesA == [u2.nodes EXCEPT ![index2].parent = index1]
            IN [uf |-> [nodes |-> nodesA, num_roots |-> u2.num_roots - 1],
                ret |-> TRUE]

\* Variant of union that links the arguments themselves, not their roots.
UnionFind_union_NoFind(u, a, b) ==
    IF a = b
    THEN [uf |-> u, ret |-> FALSE]
    ELSE LET swap == u.nodes[a].size < u.nodes[b].size
             index1 == IF swap THEN b ELSE a
             index2 == IF swap THEN a ELSE b
             nodesA == [u.nodes EXCEPT ![index2].parent = index1]
             nodesB == [nodesA EXCEPT ![index1].size =
                             nodesA[index1].size + nodesA[index2].size]
         IN [uf |-> [nodes |-> nodesB, num_roots |-> u.num_roots - 1],
             ret |-> TRUE]

\* Variant of union that tests the arguments for equality before find.
UnionFind_union_EarlyTest(u, a, b) ==
    IF a = b
    THEN [uf |-> u, ret |-> FALSE]
    ELSE LET f1 == UnionFind_find(u, a)
             f2 == UnionFind_find(f1.uf, b)
             r1 == f1.ret
             r2 == f2.ret
             u2 == f2.uf
             swap == u2.nodes[r1].size < u2.nodes[r2].size
             index1 == IF swap THEN r2 ELSE r1
             index2 == IF swap THEN r1 ELSE r2
             nodesA == [u2.nodes EXCEPT ![index2].parent = index1]
             nodesB == [nodesA EXCEPT ![index1].size =
                             nodesA[index1].size + nodesA[index2].size]
         IN [uf |-> [nodes |-> nodesB, num_roots |-> u2.num_roots - 1],
             ret |-> TRUE]

\* Variant of union that swaps on <= instead of <.
UnionFind_union_SwapOnTie(u, a, b) ==
    LET f1 == UnionFind_find(u, a)
        f2 == UnionFind_find(f1.uf, b)
        r1 == f1.ret
        r2 == f2.ret
        u2 == f2.uf
    IN IF r1 = r2
       THEN [uf |-> u2, ret |-> FALSE]
       ELSE LET swap == u2.nodes[r1].size <= u2.nodes[r2].size
                index1 == IF swap THEN r2 ELSE r1
                index2 == IF swap THEN r1 ELSE r2
                nodesA == [u2.nodes EXCEPT ![index2].parent = index1]
                nodesB == [nodesA EXCEPT ![index1].size =
                                nodesA[index1].size + nodesA[index2].size]
            IN [uf |-> [nodes |-> nodesB, num_roots |-> u2.num_roots - 1],
                ret |-> TRUE]

\* Variant of union that swaps when the first root is the larger one, so
\* that the larger set goes under the smaller.
UnionFind_union_LargerUnder(u, a, b) ==
    LET f1 == UnionFind_find(u, a)
        f2 == UnionFind_find(f1.uf, b)
        r1 == f1.ret
        r2 == f2.ret
        u2 == f2.uf
    IN IF r1 = r2
       THEN [uf |-> u2, ret |-> FALSE]
       ELSE LET swap == u2.nodes[r1].size > u2.nodes[r2].size
                index1 == IF swap THEN r2 ELSE r1
                index2 == IF swap THEN r1 ELSE r2
                nodesA == [u2.nodes EXCEPT ![index2].parent = index1]
                nodesB == [nodesA EXCEPT ![index1].size =
                                nodesA[index1].size + nodesA[index2].size]
            IN [uf |-> [nodes |-> nodesB, num_roots |-> u2.num_roots - 1],
                ret |-> TRUE]

UnionFind_union(u, a, b) ==
    LET f1 == UnionFind_find(u, a)
        f2 == UnionFind_find(f1.uf, b)
        r1 == f1.ret
        r2 == f2.ret
        u2 == f2.uf
    IN IF r1 = r2
       THEN [uf |-> u2, ret |-> FALSE]
       ELSE LET swap == u2.nodes[r1].size < u2.nodes[r2].size
                index1 == IF swap THEN r2 ELSE r1
                index2 == IF swap THEN r1 ELSE r2
                nodesA == [u2.nodes EXCEPT ![index2].parent = index1]
                nodesB == [nodesA EXCEPT ![index1].size =
                                nodesA[index1].size + nodesA[index2].size]
            IN [uf |-> [nodes |-> nodesB, num_roots |-> u2.num_roots - 1],
                ret |-> TRUE]

\* roots(): the (index, size) pairs of the self-parented nodes, by index.
RECURSIVE roots_from(_, _)
roots_from(u, ix) ==
    IF ix >= NodeCount(u) THEN <<>>
    ELSE (IF u.nodes[ix].parent = ix THEN << <<ix, u.nodes[ix].size>> >> ELSE <<>>)
         \o roots_from(u, ix + 1)

UnionFind_roots(u) == roots_from(u, 0)

UnionFind_num_roots(u) == u.num_roots

(***************************************************************************)
(* The state machine: a UnionFind built by new(n), then any sequence of    *)
(* find and union calls with in-range arguments.  last records the call    *)
(* that produced the current state, pre the UnionFind before that call.    *)
(***************************************************************************)
Call(op, x, y, ret, ok) == [op |-> op, x |-> x, y |-> y, ret |-> ret, ok |-> ok]

\* last_connection is not running.
LCIdle ==
    /\ heap = {}
    /\ last_union = <<>>
    /\ popped = <<>>
    /\ lcpre = <<>>

\* unlock is not running.
D1Idle ==
    /\ d1input = <<>>
    /\ position = 0
    /\ zeros = 0
    /\ clicks = 0
    /\ d1pc = "idle"
    /\ d1sum = 0
    /\ d1landings = 0
    /\ d1passes = 0

\* day 4 part_2 is not running.
D4Idle ==
    /\ d4grid = [data |-> <<>>, width |-> 0, height |-> 0]
    /\ removed = {}
    /\ pending = <<>>
    /\ d4pc = "idle"
    /\ d4result = 0
    /\ d4log = <<>>
    /\ d4steps = 0

\* day 9 part_2 is not running.
D9Idle ==
    /\ d9points = <<>>
    /\ d9xs = <<>>
    /\ d9ys = <<>>
    /\ d9grid = [data |-> <<>>, width |-> 0, height |-> 0]
    /\ d9uf = [nodes |-> <<>>, num_roots |-> 0]
    /\ d9ix = 0
    /\ d9roots = <<>>
    /\ max_area = 0
    /\ d9i = 0
    /\ d9j = 0
    /\ d9pc = "idle"
    /\ d9result = 0
    /\ d9candidates = {}
    /\ d9mask = <<>>
    /\ d9last = <<>>

\* Point::dist_sq is not being called.
DQIdle ==
    /\ dqself = <<>>
    /\ dqother = <<>>
    /\ dqpc = "idle"
    /\ dqout = <<>>

\* The Grid of shared.rs is not being indexed.
GXIdle ==
    /\ gxgrid = [data |-> <<>>, width |-> 0, height |-> 0]
    /\ gxpos = <<>>
    /\ gxpc = "idle"
    /\ gxbefore = <<>>
    /\ gxout = <<>>

\* day 3 part_2 is not running.
D3Idle ==
    /\ d3input = <<>>
    /\ d3more = FALSE
    /\ d3row = 0
    /\ d3line = <<>>
    /\ d3digits = <<>>
    /\ d3res = <<>>
    /\ d3pc = "idle"
    /\ d3added = <<>>

MoreIdle == DQIdle /\ GXIdle /\ D3Idle

ExtIdle == LCIdle /\ D1Idle /\ D4Idle /\ D9Idle /\ MoreIdle

\* The day 8 solver is not running.
D8Idle ==
    /\ points = <<>>
    /\ connections = 0
    /\ pc = "idle"
    /\ todo = {}
    /\ small = {}
    /\ d8uf = UnionFind_new(0)
    /\ result = 0

\* A call sequence whose result has the chain 7 -> 6 -> 4 -> 0.
DeepScript == << <<0, 1>>, <<2, 3>>, <<0, 2>>, <<4, 5>>, <<6, 7>>, <<4, 6>>, <<0, 4>> >>

RECURSIVE ApplyUnions(_, _)
ApplyUnions(u, script) ==
    IF script = <<>> THEN u
    ELSE ApplyUnions(UnionFind_union(u, Head(script)[1], Head(script)[2]).uf,
                     Tail(script))

\* The states the exploration starts from: new(size) for every small size,
\* and the state right after the last call of DeepScript on new(DeepN).
InitFresh ==
    \E size \in 0..MaxN :
        /\ uf = UnionFind_new(size)
        /\ pre = UnionFind_new(size)
        /\ last = Call("new", size, 0, 0, FALSE)
        /\ D8Idle
        /\ ExtIdle

InitDeep ==
    LET k == Len(DeepScript)
        before == ApplyUnions(UnionFind_new(DeepN), SubSeq(DeepScript, 1, k - 1))
        r == UnionFind_union(before, DeepScript[k][1], DeepScript[k][2])
    IN /\ uf = r.uf
       /\ pre = before
       /\ last = Call("union", DeepScript[k][1], DeepScript[k][2], 0, r.ret)
       /\ D8Idle
       /\ ExtIdle

Init == InitFresh \/ InitDeep

Find ==
    \E x \in DOMAIN uf.nodes :
        LET r == UnionFind_find(uf, x) IN
        /\ uf' = r.uf
        /\ pre' = uf
        /\ last' = Call("find", x, 0, r.ret, FALSE)
        /\ UNCHANGED <<d8vars, extvars>>

Union ==
    \E x \in DOMAIN uf.nodes, y \in DOMAIN uf.nodes :
        LET r == UnionFind_union(uf, x, y) IN
        /\ uf' = r.uf
        /\ pre' = uf
        /\ last' = Call("union", x, y, 0, r.ret)
        /\ UNCHANGED <<d8vars, extvars>>

Next == Find \/ Union

Spec == Init /\ [][Next]_vars

(***************************************************************************)
(* day_08.rs: groups_after_connecting(points, connections).                *)
(* day_08.rs carries its own UnionFind, a verbatim copy of the one in      *)
(* shared.rs, so its operations are the operators above.                   *)
(***************************************************************************)
\* Longest point list and largest connections argument explored.
MaxPoints == 6

MaxConnections == 4

\* The points the lists are drawn from (repeats allowed in a list).
Point_new(x, y, z) == [x |-> x, y |-> y, z |-> z]

PointChoices == {Point_new(0, 0, 0), Point_new(1, 0, 0), Point_new(0, 1, 0)}

abs_diff(a, b) == IF a < b THEN b - a ELSE a - b

\* Point::dist_sq. The coordinates explored keep the sum far below 2^64.
Point_dist_sq(self, other) ==
    LET dx == abs_diff(self.x, other.x)
        dy == abs_diff(self.y, other.y)
        dz == abs_diff(self.z, other.z)
    IN dx * dx + dy * dy + dz * dz

D8_UnionFind_new(size) == UnionFind_new(size)

\* Variant of day 8's union that links the arguments, not their roots.
D8_UnionFind_union_NoFind(u, a, b) == UnionFind_union_NoFind(u, a, b)

D8_UnionFind_union(u, a, b) == UnionFind_union(u, a, b)

D8_UnionFind_roots(u) == UnionFind_roots(u)

\* The nested loops that fill pairs: for i, for j < i, push (dist_sq, j, i).
\* Indices are the code's, from 0; pts[i + 1] is points[i].
RECURSIVE pairs_from(_, _, _)
pairs_from(pts, i, j) ==
    IF i >= Len(pts) THEN <<>>
    ELSE IF j >= i THEN pairs_from(pts, i + 1, 0)
    ELSE << <<Point_dist_sq(pts[i + 1], pts[j + 1]), j, i>> >>
         \o pairs_from(pts, i, j + 1)

all_pairs(pts) == pairs_from(pts, 0, 0)

\* Ord on (u64, usize, usize): lexicographic.
tuple_lt(a, b) ==
    \/ a[1] < b[1]
    \/ a[1] = b[1] /\ a[2] < b[2]
    \/ a[1] = b[1] /\ a[2] = b[2] /\ a[3] < b[3]

Range(seq) == {seq[k] : k \in 1..Len(seq)}

\* pairs.select_nth_unstable(index).0: the elements placed before position
\* index, which are the index least ones. Their order in the slice is
\* unspecified: the set is kept, and the loop draws the order.
select_nth_unstable(pairs, index) ==
    {p \in Range(pairs) :
        Cardinality({q \in Range(pairs) : tuple_lt(q, p)}) < index}

\* sizes.sort_unstable(): ascending insertion sort of a sequence of numbers.
RECURSIVE insert_sorted(_, _)
insert_sorted(sorted, v) ==
    IF sorted = <<>> THEN <<v>>
    ELSE IF v <= Head(sorted) THEN <<v>> \o sorted
    ELSE <<Head(sorted)>> \o insert_sorted(Tail(sorted), v)

RECURSIVE sort_unstable(_)
sort_unstable(seq) ==
    IF seq = <<>> THEN <<>>
    ELSE insert_sorted(sort_unstable(Tail(seq)), Head(seq))

\* for &size in sizes.iter().rev().take(count) { prod *= size }
RECURSIVE prod_rev_take(_, _)
prod_rev_take(sizes, count) ==
    IF count = 0 \/ sizes = <<>> THEN 1
    ELSE sizes[Len(sizes)] * prod_rev_take(SubSeq(sizes, 1, Len(sizes) - 1), count - 1)

\* Variant of the product that takes two sizes.
size_product_TakeTwo(u) ==
    LET rs == D8_UnionFind_roots(u)
        sizes == sort_unstable([k \in 1..Len(rs) |-> rs[k][2]])
    IN prod_rev_take(sizes, 2)

\* Lines 88-94: collect the root sizes, sort, multiply the last three.
size_product(u) ==
    LET rs == D8_UnionFind_roots(u)
        sizes == sort_unstable([k \in 1..Len(rs) |-> rs[k][2]])
    IN prod_rev_take(sizes, 3)

UFIdle ==
    /\ uf = UnionFind_new(0)
    /\ pre = UnionFind_new(0)
    /\ last = Call("idle", 0, 0, 0, FALSE)

PointLists == UNION {[1..n -> PointChoices] : n \in 0..MaxPoints}

D8Init ==
    /\ points \in PointLists
    /\ connections \in 0..MaxConnections
    /\ pc = "start"
    /\ todo = {}
    /\ small = {}
    /\ d8uf = UnionFind_new(0)
    /\ result = 0
    /\ UFIdle
    /\ ExtIdle

\* Variant of the range test of select_nth_unstable that accepts index = len.
nth_out_of_range_PastEnd(len, index) == index > len

\* slice::select_nth_unstable panics when index >= len.
nth_out_of_range(len, index) == index >= len

\* Lines 76-84: build pairs, select (an index past the end panics), create
\* the UnionFind. todo holds the elements of small the loop has yet to meet.
D8Select ==
    /\ pc = "start"
    /\ LET pairs == all_pairs(points) IN
       IF nth_out_of_range(Len(pairs), connections)
       THEN /\ pc' = "panic"
            /\ UNCHANGED <<todo, small, d8uf>>
       ELSE /\ pc' = "loop"
            /\ small' = select_nth_unstable(pairs, connections)
            /\ todo' = small'
            /\ d8uf' = D8_UnionFind_new(Len(points))
    /\ UNCHANGED <<points, connections, result, ufvars, extvars>>

\* Lines 85-87: one iteration of the loop over small, on any element not
\* yet met.
D8Union ==
    /\ pc = "loop"
    /\ \E e \in todo :
          /\ d8uf' = D8_UnionFind_union(d8uf, e[2], e[3]).uf
          /\ todo' = todo \ {e}
    /\ UNCHANGED <<points, connections, pc, small, result, ufvars, extvars>>

\* Lines 88-94 once the loop is over.
D8Product ==
    /\ pc = "loop"
    /\ todo = {}
    /\ result' = size_product(d8uf)
    /\ pc' = "done"
    /\ UNCHANGED <<points, connections, todo, small, d8uf, ufvars, extvars>>

D8Next == D8Select \/ D8Union \/ D8Product

SpecDay8 == D8Init /\ [][D8Next]_vars

(***************************************************************************)
(* Vocabulary of the properties: roots and sets read off the parent links  *)
(* without calling find.                                                   *)
(***************************************************************************)
Elems(u) == DOMAIN u.nodes

RECURSIVE Ancestor(_, _, _)
Ancestor(u, i, k) == IF k = 0 THEN i ELSE Ancestor(u, u.nodes[i].parent, k - 1)

IsRoot(u, i) == u.nodes[i].parent = i

RootOf(u, i) == Ancestor(u, i, NodeCount(u))

SetOf(u, i) == {j \in Elems(u) : RootOf(u, j) = RootOf(u, i)}

Partition(u) == {SetOf(u, i) : i \in Elems(u)}

RootSet(u) == {i \in Elems(u) : IsRoot(u, i)}

RootSizes(u) == [r \in RootSet(u) |-> u.nodes[r].size]

PathOf(u, i) == {Ancestor(u, i, k) : k \in 0..NodeCount(u)}

ProperAncestors(u, i) == {Ancestor(u, i, k) : k \in 1..NodeCount(u)}

RECURSIVE SumSizes(_)
SumSizes(pairs) == IF pairs = <<>> THEN 0 ELSE Head(pairs)[2] + SumSizes(Tail(pairs))

\* C1: new(N) has N roots, and num_roots always equals both the number of
\* distinct find results over 0..N and the number of self-parented nodes.
C1_NumRootsCountsSets ==
    /\ last.op = "new" => UnionFind_num_roots(uf) = last.x
    /\ UnionFind_num_roots(uf)
         = Cardinality({UnionFind_find(uf, i).ret : i \in Elems(uf)})
    /\ UnionFind_num_roots(uf) = Cardinality(RootSet(uf))

C1_Witness ==
    /\ last.op = "find"
    /\ NodeCount(uf) = 5
    /\ UnionFind_num_roots(uf) = 2
    /\ pre.nodes # uf.nodes

\* C2: the size stored at each root is the number of elements whose find is
\* that root, roots() yields exactly the self-parented nodes with their
\* sizes, and those sizes sum to N.
C2_RootSizesCountMembers ==
    LET rs == UnionFind_roots(uf) IN
    /\ \A k \in 1..Len(rs) :
          /\ IsRoot(uf, rs[k][1])
          /\ rs[k][2] = uf.nodes[rs[k][1]].size
          /\ rs[k][2] = Cardinality({i \in Elems(uf) :
                                        UnionFind_find(uf, i).ret = rs[k][1]})
    /\ {rs[k][1] : k \in 1..Len(rs)} = RootSet(uf)
    /\ Len(rs) = Cardinality(RootSet(uf))
    /\ SumSizes(rs) = NodeCount(uf)

C2_Witness ==
    /\ last.op = "union"
    /\ last.ok
    /\ Cardinality(RootSet(uf)) = 2
    /\ \E r \in RootSet(uf) : uf.nodes[r].size = 4
    /\ \E i \in Elems(uf) : ~IsRoot(uf, i) /\ uf.nodes[i].size = 2

\* C3: the parent links form a forest: from every element, at most N parent
\* steps reach a self-parented node, so the loop of find terminates.
C3_ParentLinksFormForest ==
    \A i \in Elems(uf) :
        \E k \in 0..(NodeCount(uf) - 1) : IsRoot(uf, Ancestor(uf, i, k))

C3_Witness ==
    /\ last.op = "union"
    /\ last.ok
    /\ \E i \in Elems(uf) :
          /\ ~IsRoot(uf, i)
          /\ ~IsRoot(uf, uf.nodes[i].parent)

\* C4: find(x) returns the root of x's tree as it was before the call, and
\* find(find(x)) = find(x) for every x in every reachable state.
C4_FindReturnsRootFixedPoint ==
    /\ last.op = "find" => /\ last.ret = RootOf(pre, last.x)
                           /\ IsRoot(pre, last.ret)
    /\ \A x \in Elems(uf) :
          LET f1 == UnionFind_find(uf, x)
              f2 == UnionFind_find(f1.uf, f1.ret)
          IN /\ f2.ret = f1.ret
             /\ f1.ret = RootOf(uf, x)

C4_Witness ==
    /\ last.op = "find"
    /\ last.ret # last.x
    /\ pre.nodes[last.x].parent # last.ret

\* C5: find(x) rewrites only parent pointers of nodes on the path from x to
\* its root, each to a former proper ancestor of that node; the partition,
\* every element's root, every root's size and num_roots are unchanged.
C5_FindOnlyCompresses ==
    last.op = "find" =>
        /\ \A i \in Elems(uf) :
              /\ uf.nodes[i].size = pre.nodes[i].size
              /\ uf.nodes[i].parent # pre.nodes[i].parent =>
                    /\ i \in PathOf(pre, last.x)
                    /\ ~IsRoot(pre, i)
                    /\ uf.nodes[i].parent \in ProperAncestors(pre, i)
              /\ RootOf(uf, i) = RootOf(pre, i)
        /\ Partition(uf) = Partition(pre)
        /\ RootSizes(uf) = RootSizes(pre)
        /\ uf.num_roots = pre.num_roots

C5_Witness ==
    /\ last.op = "find"
    /\ \E i \in Elems(uf) :
          /\ uf.nodes[i].parent # pre.nodes[i].parent
          /\ uf.nodes[i].parent # last.ret

C5_WitnessSeveralSets ==
    /\ last.op = "find"
    /\ uf.nodes # pre.nodes
    /\ uf.num_roots > 1

\* C6: union(x, y) returns true exactly when x and y were in different sets;
\* then exactly those two sets are merged and num_roots drops by one; when it
\* returns false the partition, the root sizes and num_roots are unchanged.
C6_UnionMergesExactlyTwoSets ==
    last.op = "union" =>
        LET sx == SetOf(pre, last.x)
            sy == SetOf(pre, last.y)
        IN /\ last.ok <=> (sx # sy)
           /\ last.ok =>
                /\ Partition(uf) = (Partition(pre) \ {sx, sy}) \cup {sx \cup sy}
                /\ uf.num_roots = pre.num_roots - 1
                /\ Cardinality(RootSet(uf)) = Cardinality(RootSet(pre)) - 1
           /\ ~last.ok =>
                /\ Partition(uf) = Partition(pre)
                /\ RootSizes(uf) = RootSizes(pre)
                /\ uf.num_roots = pre.num_roots

C6_Witness ==
    /\ last.op = "union"
    /\ last.ok
    /\ Cardinality(SetOf(pre, last.x)) = 2
    /\ Cardinality(SetOf(pre, last.y)) = 1
    /\ Cardinality(Partition(uf)) = 2

\* C7: right after union(x, y), a second union(x, y) returns false and leaves
\* the partition, the root sizes and num_roots as the first call left them.
C7_UnionIdempotent ==
    last.op = "union" =>
        LET again == UnionFind_union(uf, last.x, last.y) IN
        /\ again.ret = FALSE
        /\ Partition(again.uf) = Partition(uf)
        /\ RootSizes(again.uf) = RootSizes(uf)
        /\ again.uf.num_roots = uf.num_roots

C7_Witness ==
    /\ last.op = "union"
    /\ last.ok
    /\ UnionFind_union(uf, last.x, last.y).uf # uf

\* C8: a successful union(x, y) hangs the root of strictly smaller size under
\* the other, hangs y's root under x's root on a tie, and the surviving root
\* gets the sum of the two sizes.
C8_UnionBySize ==
    (last.op = "union" /\ last.ok) =>
        LET rx == RootOf(pre, last.x)
            ry == RootOf(pre, last.y)
            szx == pre.nodes[rx].size
            szy == pre.nodes[ry].size
            winner == IF szx < szy THEN ry ELSE rx
            loser == IF szx < szy THEN rx ELSE ry
        IN /\ uf.nodes[loser].parent = winner
           /\ uf.nodes[winner].parent = winner
           /\ uf.nodes[winner].size = szx + szy
           /\ uf.nodes[loser].size = pre.nodes[loser].size

C8_Witness ==
    /\ last.op = "union"
    /\ last.ok
    /\ pre.nodes[RootOf(pre, last.x)].size < pre.nodes[RootOf(pre, last.y)].size
    /\ uf.nodes[RootOf(pre, last.x)].parent = RootOf(pre, last.y)

C8_WitnessTie ==
    /\ last.op = "union"
    /\ last.ok
    /\ pre.nodes[RootOf(pre, last.x)].size = 2
    /\ pre.nodes[RootOf(pre, last.y)].size = 2
    /\ uf.nodes[RootOf(pre, last.y)].parent = RootOf(pre, last.x)

(***************************************************************************)
(* Vocabulary of the day 8 properties: the components of the graph whose   *)
(* vertices are the point indices and whose edges are a set of pairs,      *)
(* computed by reachability, without a UnionFind.                          *)
(***************************************************************************)
RECURSIVE Grow(_, _)
Grow(S, E) ==
    LET S2 == S \cup {e[3] : e \in {f \in E : f[2] \in S}}
                \cup {e[2] : e \in {f \in E : f[3] \in S}}
    IN IF S2 = S THEN S ELSE Grow(S2, E)

Components(n, E) == {Grow({i}, E) : i \in 0..(n - 1)}

RECURSIVE LargestProduct(_, _)
LargestProduct(comps, count) ==
    IF count = 0 \/ comps = {} THEN 1
    ELSE LET c == CHOOSE c \in comps :
                     \A d \in comps : Cardinality(d) <= Cardinality(c)
         IN Cardinality(c) * LargestProduct(comps \ {c}, count - 1)

RECURSIVE Ascending(_)
Ascending(E) ==
    IF E = {} THEN <<>>
    ELSE LET m == CHOOSE m \in E : \A f \in E \ {m} : tuple_lt(m, f)
         IN <<m>> \o Ascending(E \ {m})

RECURSIVE D8ApplyUnions(_, _)
D8ApplyUnions(u, edges) ==
    IF edges = <<>> THEN u
    ELSE D8ApplyUnions(D8_UnionFind_union(u, Head(edges)[2], Head(edges)[3]).uf,
                       Tail(edges))

ExamplePoints == <<Point_new(0, 0, 0), Point_new(1, 0, 0), Point_new(0, 1, 0)>>

\* C9: with k below the number of pairs, groups_after_connecting unions
\* exactly k pairs, none farther apart than any pair left out, into a fresh
\* UnionFind of points.len() nodes and returns the product of the three
\* largest component sizes (of all of them when there are fewer than three);
\* the points (0,0),(1,0),(0,1) with k = 1 give 2.
C9_ProductOfThreeLargestGroups ==
    LET n == Len(points)
        E == small
        allp == Range(all_pairs(points))
    IN /\ pc = "panic" => connections >= (n * (n - 1)) \div 2
       /\ pc = "done" =>
            /\ connections < (n * (n - 1)) \div 2
            /\ Cardinality(allp) = (n * (n - 1)) \div 2
            /\ Cardinality(E) = connections
            /\ \A e \in E :
                  /\ e[2] < e[3]
                  /\ e[3] < n
                  /\ e[1] = Point_dist_sq(points[e[2] + 1], points[e[3] + 1])
            /\ \A e \in E : \A f \in allp \ E : e[1] <= f[1]
            /\ NodeCount(d8uf) = n
            /\ result = LargestProduct(Components(n, E), 3)
            /\ (points = ExamplePoints /\ connections = 1) => result = 2

C9_Witness ==
    /\ pc = "done"
    /\ points = ExamplePoints
    /\ connections = 1
    /\ result = 2

C9_WitnessFewGroups ==
    /\ pc = "done"
    /\ Len(points) = 4
    /\ Cardinality(Components(Len(points), small)) = 2
    /\ result = 3

C9_WitnessThreeGroups ==
    /\ pc = "done"
    /\ Cardinality(Components(Len(points), small)) = 3
    /\ result = 8

\* C10: whatever the order the loop meets the selected edges in, the
\* partition is that of the graph of the edges unioned so far, and the result
\* equals the one obtained by unioning the same edges in ascending order.
C10_OrderOfUnionsIrrelevant ==
    LET n == Len(points)
    IN /\ pc \in {"loop", "done"} => Partition(d8uf) = Components(n, small \ todo)
       /\ pc = "done" =>
            result = size_product(D8ApplyUnions(D8_UnionFind_new(n), Ascending(small)))

C10_Witness ==
    /\ pc = "done"
    /\ Cardinality(small) >= 3
    /\ d8uf.nodes # D8ApplyUnions(D8_UnionFind_new(Len(points)),
                                  Ascending(small)).nodes
    /\ result > 1

(***************************************************************************)
(* day_08.rs: last_connection(points).  It shares points, pc, d8uf and     *)
(* result with the model of groups_after_connecting.                       *)
(***************************************************************************)
LCPointChoices == PointChoices \cup {Point_new(3, 2, 1)}

LCPointLists == UNION {[1..n -> LCPointChoices] : n \in 0..MaxPoints}

\* Lines 98-104: the same nested loops as in groups_after_connecting; an
\* element <<d, j, i>> stands for (Reverse(d), j, i).
lc_pairs(pts) == all_pairs(pts)

\* Ord on (Reverse<u64>, usize, usize).
heap_lt(a, b) ==
    \/ a[1] > b[1]
    \/ a[1] = b[1] /\ a[2] < b[2]
    \/ a[1] = b[1] /\ a[2] = b[2] /\ a[3] < b[3]

\* Variant of pop for a heap built without Reverse.
heap_pop_Farthest(h) == CHOOSE e \in h : \A f \in h \ {e} : tuple_lt(f, e)

\* BinaryHeap::pop on a non-empty heap: its greatest element.
heap_pop(h) == CHOOSE e \in h : \A f \in h \ {e} : heap_lt(f, e)

\* Variant of the loop condition that stops one root early.
lc_continue_OffByOne(u, h) == UnionFind_num_roots(u) > 2 /\ h # {}

\* Lines 108-109: uf.num_roots() > 1 && let Some(..) = heap.pop().
lc_continue(u, h) == UnionFind_num_roots(u) > 1 /\ h # {}

lcFrame == <<ufvars, connections, todo, small, d1vars, d4vars, d9vars, morevars>>

LCInit ==
    /\ points \in LCPointLists
    /\ connections = 0
    /\ pc = "lc_start"
    /\ todo = {}
    /\ small = {}
    /\ d8uf = UnionFind_new(0)
    /\ result = 0
    /\ LCIdle
    /\ UFIdle
    /\ D1Idle
    /\ D4Idle
    /\ D9Idle
    /\ MoreIdle

\* Lines 98-107.
LCStart ==
    /\ pc = "lc_start"
    /\ heap' = Range(lc_pairs(points))
    /\ d8uf' = D8_UnionFind_new(Len(points))
    /\ last_union' = <<>>
    /\ pc' = "lc_loop"
    /\ UNCHANGED <<points, result, popped, lcpre, lcFrame>>

\* Variant of the loop body that records every popped edge.
LCPop_AlwaysRecord ==
    /\ pc = "lc_loop"
    /\ lc_continue(d8uf, heap)
    /\ LET e == heap_pop(heap)
           r == D8_UnionFind_union(d8uf, e[2], e[3])
       IN /\ heap' = heap \ {e}
          /\ d8uf' = r.uf
          /\ last_union' = <<e[2], e[3]>>
          /\ popped' = Append(popped, [e |-> e, ok |-> r.ret,
                                       roots |-> UnionFind_num_roots(r.uf)])
          /\ lcpre' = [uf |-> d8uf, last_union |-> last_union]
    /\ UNCHANGED <<points, pc, result, lcFrame>>

\* Lines 108-114: one iteration of the while loop.
LCPop ==
    /\ pc = "lc_loop"
    /\ lc_continue(d8uf, heap)
    /\ LET e == heap_pop(heap)
           r == D8_UnionFind_union(d8uf, e[2], e[3])
       IN /\ heap' = heap \ {e}
          /\ d8uf' = r.uf
          /\ last_union' = IF r.ret THEN <<e[2], e[3]>> ELSE last_union
          /\ popped' = Append(popped, [e |-> e, ok |-> r.ret,
                                       roots |-> UnionFind_num_roots(r.uf)])
          /\ lcpre' = [uf |-> d8uf, last_union |-> last_union]
    /\ UNCHANGED <<points, pc, result, lcFrame>>

\* Lines 115-116 once the loop condition fails.
LCFinish ==
    /\ pc = "lc_loop"
    /\ ~lc_continue(d8uf, heap)
    /\ IF last_union = <<>>
       THEN /\ pc' = "panic"
            /\ UNCHANGED result
       ELSE /\ pc' = "done"
            /\ result' = points[last_union[1] + 1].x * points[last_union[2] + 1].x
    /\ UNCHANGED <<points, d8uf, lcvars, lcFrame>>

LCNext == LCStart \/ LCPop \/ LCFinish

SpecLastConnection == LCInit /\ [][LCNext]_vars

\* The popped edges whose union succeeded.
Succeeded == {k \in 1..Len(popped) : popped[k].ok}

\* The number of parent links from i up to its root, and the longest such
\* chain ending at the root r.
RECURSIVE Depth(_, _)
Depth(u, i) == IF IsRoot(u, i) THEN 0 ELSE 1 + Depth(u, u.nodes[i].parent)

Height(u, r) ==
    LET depths == {Depth(u, i) : i \in SetOf(u, r)}
    IN CHOOSE h \in depths : \A d \in depths : d <= h

RECURSIVE Pow2(_)
Pow2(k) == IF k = 0 THEN 1 ELSE 2 * Pow2(k - 1)

\* C28: after new and any sequence of union and find calls, every root r
\* has size(r) >= 2^height(r), height(r) being the longest parent chain
\* that ends at r.
C28_SizeBoundsHeight ==
    \A r \in RootSet(uf) : uf.nodes[r].size >= Pow2(Height(uf, r))

C28_Witness ==
    /\ last.op = "union"
    /\ \E r \in RootSet(uf) : Height(uf, r) = 2 /\ uf.nodes[r].size = 4

C28_WitnessDeep ==
    /\ last.op = "find"
    /\ \E r \in RootSet(uf) : Height(uf, r) = 3 /\ uf.nodes[r].size = 8

\* C29: groups_after_connecting panics, and returns nothing, whenever
\* connections is at least the number n * (n - 1) / 2 of unordered pairs of
\* its n points (always, then, with fewer than two points); with fewer
\* connections than pairs it does not panic.
C29_AbortsWhenTooFewPairs ==
    pc # "start" =>
        (pc = "panic" <=> connections >= (Len(points) * (Len(points) - 1)) \div 2)

C29_Witness ==
    /\ pc = "panic"
    /\ Len(points) = 3
    /\ connections = 3

C29_WitnessFewPoints ==
    /\ pc = "panic"
    /\ Len(points) < 2
    /\ connections = 0

\* C11: with two or more points the loop stops right after the pop that
\* brings num_roots to 1; that pop's union succeeded, its edge is last_union
\* and gives the result, and no edge whose union succeeded is heavier.
C11_LastUnionEdgeReported ==
    (pc = "done" /\ Len(points) >= 2) =>
        LET m == Len(popped)
            e == popped[m].e
        IN /\ m >= 1
           /\ popped[m].ok
           /\ popped[m].roots = 1
           /\ lcpre.uf.num_roots = 2
           /\ \A k \in 1..(m - 1) : popped[k].roots > 1
           /\ last_union = <<e[2], e[3]>>
           /\ result = points[e[2] + 1].x * points[e[3] + 1].x
           /\ \A k \in Succeeded : popped[k].e[1] <= e[1]

C11_Witness ==
    /\ pc = "done"
    /\ Len(points) = 4
    /\ heap # {}
    /\ \E k \in 1..Len(popped) : ~popped[k].ok
    /\ result = 3

\* C12: edges are popped in non-decreasing squared distance, equal distances
\* by descending index pair; a pop whose union fails leaves the partition and
\* last_union alone; with n >= 2 points exactly n - 1 unions have succeeded
\* when the loop ends.
C12_KruskalOrderAndCount ==
    /\ \A k \in 1..(Len(popped) - 1) :
          LET a == popped[k].e
              b == popped[k + 1].e
          IN \/ a[1] < b[1]
             \/ a[1] = b[1] /\ (b[2] < a[2] \/ (b[2] = a[2] /\ b[3] < a[3]))
    /\ (pc = "lc_loop" /\ popped # <<>> /\ ~popped[Len(popped)].ok) =>
          /\ Partition(d8uf) = Partition(lcpre.uf)
          /\ last_union = lcpre.last_union
    /\ \A k \in 1..Len(popped) :
          popped[k].e[1] = Point_dist_sq(points[popped[k].e[2] + 1],
                                         points[popped[k].e[3] + 1])
    /\ (pc = "done" /\ Len(points) >= 2) =>
          Cardinality(Succeeded) = Len(points) - 1

C12_Witness ==
    /\ pc = "done"
    /\ Len(points) = 5
    /\ Cardinality(Succeeded) = 4
    /\ Len(popped) > 5
    /\ \E k \in 1..(Len(popped) - 1) :
          /\ ~popped[k].ok
          /\ popped[k].e[1] = popped[k + 1].e[1]

\* C13: last_connection panics exactly on an empty or one-point list.
C13_PanicOnlyBelowTwoPoints ==
    /\ pc = "panic" => Len(points) < 2
    /\ pc = "done" => Len(points) >= 2
    /\ (pc = "lc_loop" /\ ~lc_continue(d8uf, heap)) =>
          ((last_union = <<>>) <=> Len(points) < 2)

C13_Witness ==
    /\ pc = "panic"
    /\ Len(points) = 1
    /\ popped = <<>>

C13_WitnessTwoPoints ==
    /\ pc = "done"
    /\ Len(points) = 2

(***************************************************************************)
(* day_01.rs: unlock(input).  position and delta are i16; the sum          *)
(* position + delta leaves i16 for deltas near the ends of the type, where *)
(* a build with overflow checks panics and one without wraps.              *)
(***************************************************************************)
\* Longest rotation list explored.
MaxRotations == 4

\* The deltas the lists are drawn from; parse yields -32767..32767.
DeltaChoices == {-32767, -250, -100, -50, -1, 0, 18, 50, 100, 32767}

DeltaLists == UNION {[1..n -> DeltaChoices] : n \in 0..MaxRotations}

in_i16(v) == -32768 <= v /\ v <= 32767

wrapping_i16(v) == ((v + 32768) % 65536) - 32768

\* The % of Rust: the remainder has the sign of the dividend.
rem(a, b) == IF a >= 0 THEN a % b ELSE -((-a) % b)

unsigned_abs(a) == IF a < 0 THEN -a ELSE a

\* i16::rem_euclid for a positive divisor.
rem_euclid(a, b) == a % b

bool_to_u64(b) == IF b THEN 1 ELSE 0

\* Lines 32-35: what one rotation adds to clicks.
click_increment(pos, delta) ==
    unsigned_abs(delta) \div 100
    + bool_to_u64(pos = 0 \/ pos + rem(delta, 100) < 0 \/ pos + rem(delta, 100) > 100)

\* Multiples of 100 in the half-open stretch the dial sweeps when it goes
\* from the unwrapped position from by delta (from itself excluded).
ZerosSwept(from, delta) ==
    IF delta >= 0
    THEN ((from + delta) \div 100) - (from \div 100)
    ELSE ((from - 1) \div 100) - ((from + delta - 1) \div 100)

d1Frame == <<ufvars, d8vars, lcvars, d4vars, d9vars, morevars>>

D1Init ==
    /\ d1input \in DeltaLists
    /\ position = 50
    /\ zeros = 0
    /\ clicks = 0
    /\ d1pc = "loop"
    /\ d1sum = 0
    /\ d1landings = 0
    /\ d1passes = 0
    /\ UFIdle
    /\ D8Idle
    /\ LCIdle
    /\ D4Idle
    /\ D9Idle
    /\ MoreIdle

\* Lines 31-38: one iteration of the for loop, position + delta computed in
\* i16 without overflow checks (wrapping when it leaves the type).
D1Rotate ==
    /\ d1pc = "loop"
    /\ d1input # <<>>
    /\ LET delta == Head(d1input)
           moved == rem_euclid(wrapping_i16(position + delta), 100)
       IN /\ clicks' = clicks + click_increment(position, delta)
          /\ position' = moved
          /\ zeros' = zeros + bool_to_u64(moved = 0)
          /\ d1sum' = d1sum + delta
          /\ d1landings' = d1landings + bool_to_u64((50 + d1sum + delta) % 100 = 0)
          /\ d1passes' = d1passes + ZerosSwept(50 + d1sum, delta)
    /\ d1input' = Tail(d1input)
    /\ UNCHANGED <<d1pc, d1Frame>>

\* Line 36 with overflow checks: position + delta outside i16 panics.
D1Overflow ==
    /\ d1pc = "loop"
    /\ d1input # <<>>
    /\ ~in_i16(position + Head(d1input))
    /\ d1pc' = "panic"
    /\ UNCHANGED <<d1input, position, zeros, clicks, d1sum, d1landings, d1passes, d1Frame>>

\* Line 39.
D1Return ==
    /\ d1pc = "loop"
    /\ d1input = <<>>
    /\ d1pc' = "done"
    /\ UNCHANGED <<d1input, position, zeros, clicks, d1sum, d1landings, d1passes, d1Frame>>

D1Next == D1Rotate \/ D1Overflow \/ D1Return

SpecDay1 == D1Init /\ [][D1Next]_vars

\* C18: unlock(input).1 is the number of single clicks after which the dial
\* shows 0, for every rotation list.
C18_ClicksCountEveryZero ==
    d1pc = "done" => clicks = d1passes

\* C19: after every rotation position is in 0..99 and equals (50 + sum of the
\* deltas so far) mod 100, and unlock(input).0 is the number of rotations
\* that ended on 0.
C19_PositionTracksDial ==
    d1pc \in {"loop", "done"} =>
        /\ position \in 0..99
        /\ position = (50 + d1sum) % 100
        /\ zeros = d1landings

(***************************************************************************)
(* day_04.rs: part_2(grid), on the Grid of day_04.rs (data is indexed from *)
(* 0 by row * width + col).                                                *)
(***************************************************************************)
\* Most empty tiles in the grids of the large shapes.
MaxEmpty == 3

\* Shapes <<height, width>> explored with every tile assignment, shapes
\* explored with at most MaxEmpty empty tiles, and shapes explored with one
\* empty tile fewer than that.
D4SmallShapes == {<<0, 0>>, <<1, 1>>, <<1, 3>>, <<2, 3>>, <<3, 3>>}

D4LargeShapes == {<<4, 4>>, <<4, 5>>}

D4WideShapes == {<<5, 5>>}

D4Pos_new(row, col) == [row |-> row, col |-> col]

Grid_of(h, w, empties) ==
    [data |-> [ix \in 0..(h * w - 1) |-> IF ix \in empties THEN "Empty" ELSE "Roll"],
     width |-> w, height |-> h]

\* The subsets of S with at most k elements.
RECURSIVE AtMost(_, _)
AtMost(S, k) ==
    IF k = 0 THEN {{}}
    ELSE LET fewer == AtMost(S, k - 1)
         IN fewer \cup {e \cup {x} : e \in fewer, x \in S}

D4Grids ==
    UNION {{Grid_of(sh[1], sh[2], e) : e \in SUBSET (0..(sh[1] * sh[2] - 1))} :
              sh \in D4SmallShapes}
    \cup
    UNION {{Grid_of(sh[1], sh[2], e) : e \in AtMost(0..(sh[1] * sh[2] - 1), MaxEmpty)} :
              sh \in D4LargeShapes}
    \cup
    UNION {{Grid_of(sh[1], sh[2], e) : e \in AtMost(0..(sh[1] * sh[2] - 1), MaxEmpty - 1)} :
              sh \in D4WideShapes}

saturating_sub(a, b) == IF a < b THEN 0 ELSE a - b

usize_min(a, b) == IF a < b THEN a ELSE b

\* Grid::neighbors: the positions of the 3 x 3 block around pos clipped to
\* the grid, row by row, pos itself filtered out.
Grid_neighbors(g, pos) ==
    LET r_lo == saturating_sub(pos.row, 1)
        r_hi == usize_min(g.height, pos.row + 2)
        c_lo == saturating_sub(pos.col, 1)
        c_hi == usize_min(g.width, pos.col + 2)
        nc == c_hi - c_lo
        block == [k \in 1..((r_hi - r_lo) * nc) |->
                     D4Pos_new(r_lo + (k - 1) \div nc, c_lo + ((k - 1) % nc))]
    IN SelectSeq(block, LAMBDA neighbor : neighbor # pos)

\* Grid::convert_index; -1 stands for None.
Grid_convert_index(g, pos) ==
    IF pos.row < g.height /\ pos.col < g.width
    THEN pos.row * g.width + pos.col
    ELSE -1

\* Index<Pos> for Grid; the positions used here are always in range.
Grid_index(g, pos) == g.data[Grid_convert_index(g, pos)]

\* Lines 143-146: the roll neighbours of pos.
roll_neighbors(g, pos) ==
    Len(SelectSeq(Grid_neighbors(g, pos), LAMBDA n : Grid_index(g, n) = "Roll"))

\* Variant of the count of the while loop that forgets removed.
live_neighbors_IgnoreRemoved(g, rem_set, pos) == roll_neighbors(g, pos)

\* Lines 157-160: the roll neighbours of pos that are not in removed.
live_neighbors(g, rem_set, pos) ==
    Len(SelectSeq(Grid_neighbors(g, pos),
                  LAMBDA n : Grid_index(g, n) = "Roll" /\ n \notin rem_set))

\* Lines 137-151: the scan over all positions from index ix on; st holds
\* removed, pending and the log.
RECURSIVE scan_from(_, _, _)
scan_from(g, ix, st) ==
    IF ix >= g.height * g.width THEN st
    ELSE LET pos == D4Pos_new(ix \div g.width, ix % g.width) IN
         IF Grid_index(g, pos) # "Roll" THEN scan_from(g, ix + 1, st)
         ELSE IF roll_neighbors(g, pos) < 4 /\ pos \notin st.removed
              THEN scan_from(g, ix + 1,
                     [removed |-> st.removed \cup {pos},
                      pending |-> Append(st.pending, pos),
                      log |-> Append(st.log,
                                [pos |-> pos,
                                 live |-> live_neighbors(g, st.removed, pos)])])
              ELSE scan_from(g, ix + 1, st)

\* Lines 153-164: the for loop over the neighbours of the popped position.
RECURSIVE visit_neighbors(_, _, _)
visit_neighbors(g, nexts, st) ==
    IF nexts = <<>> THEN st
    ELSE LET next == Head(nexts) IN
         IF Grid_index(g, next) # "Roll" THEN visit_neighbors(g, Tail(nexts), st)
         ELSE LET neighbors == live_neighbors(g, st.removed, next) IN
              IF neighbors < 4 /\ next \notin st.removed
              THEN visit_neighbors(g, Tail(nexts),
                     [removed |-> st.removed \cup {next},
                      pending |-> Append(st.pending, next),
                      log |-> Append(st.log, [pos |-> next, live |-> neighbors])])
              ELSE visit_neighbors(g, Tail(nexts), st)

d4Frame == <<ufvars, d8vars, lcvars, d1vars, d9vars, morevars>>

D4Init ==
    /\ d4grid \in D4Grids
    /\ removed = {}
    /\ pending = <<>>
    /\ d4pc = "scan"
    /\ d4result = 0
    /\ d4log = <<>>
    /\ d4steps = 0
    /\ UFIdle
    /\ D8Idle
    /\ LCIdle
    /\ D1Idle
    /\ D9Idle
    /\ MoreIdle

\* Lines 135-151.
D4Scan ==
    /\ d4pc = "scan"
    /\ LET st == scan_from(d4grid, 0, [removed |-> {}, pending |-> <<>>, log |-> <<>>])
       IN /\ removed' = st.removed
          /\ pending' = st.pending
          /\ d4log' = st.log
    /\ d4pc' = "loop"
    /\ UNCHANGED <<d4grid, d4result, d4steps, d4Frame>>

\* Lines 152-165: one iteration of the while loop.
D4Pop ==
    /\ d4pc = "loop"
    /\ pending # <<>>
    /\ LET pos == Head(pending)
           st == visit_neighbors(d4grid, Grid_neighbors(d4grid, pos),
                                 [removed |-> removed, pending |-> Tail(pending),
                                  log |-> d4log])
       IN /\ removed' = st.removed
          /\ pending' = st.pending
          /\ d4log' = st.log
    /\ d4steps' = d4steps + 1
    /\ UNCHANGED <<d4grid, d4pc, d4result, d4Frame>>

\* Line 166.
D4Return ==
    /\ d4pc = "loop"
    /\ pending = <<>>
    /\ d4result' = Cardinality(removed)
    /\ d4pc' = "done"
    /\ UNCHANGED <<d4grid, removed, pending, d4log, d4steps, d4Frame>>

D4Next == D4Scan \/ D4Pop \/ D4Return

SpecDay4 == D4Init /\ [][D4Next]_vars

(***************************************************************************)
(* Vocabulary of the day 4 property, from the geometry alone.              *)
(***************************************************************************)
Rolls(g) ==
    {D4Pos_new(r, c) : r \in 0..(g.height - 1), c \in 0..(g.width - 1)}
    \cap {q \in [row : 0..(g.height - 1), col : 0..(g.width - 1)] :
             g.data[q.row * g.width + q.col] = "Roll"}

Adjacent(a, b) ==
    /\ a # b
    /\ a.row - b.row \in {-1, 0, 1}
    /\ a.col - b.col \in {-1, 0, 1}

Support(S, x) == Cardinality({y \in S : Adjacent(x, y)})

\* Removal in rounds: all rolls with fewer than 4 remaining neighbours go at
\* once.
RECURSIVE PeelRounds(_)
PeelRounds(S) ==
    LET weak == {x \in S : Support(S, x) < 4}
    IN IF weak = {} THEN S ELSE PeelRounds(S \ weak)

\* Removal one roll at a time, always the last qualifying one in row-major
\* order.
RECURSIVE PeelLast(_)
PeelLast(S) ==
    LET weak == {x \in S : Support(S, x) < 4}
    IN IF weak = {} THEN S
       ELSE LET x == CHOOSE x \in weak :
                        \A y \in weak : y.row < x.row \/ (y.row = x.row /\ y.col <= x.col)
            IN PeelLast(S \ {x})

\* The call is at a point from which it steps on (the scan, an iteration of
\* the loop or the return) or has returned, and the while loop has made at
\* most one iteration per roll: part_2 returns within that many iterations.
D4Terminates ==
    /\ d4pc \in {"scan", "loop", "done"}
    /\ d4steps + Len(pending) = Len(d4log)
    /\ Len(d4log) <= Cardinality(Rolls(d4grid))
    /\ d4pc = "done" => pending = <<>>

D4Safe ==
    /\ \A k \in 1..Len(d4log) : d4log[k].live < 4
    /\ {d4log[k].pos : k \in 1..Len(d4log)} = removed
    /\ Len(d4log) = Cardinality(removed)
    /\ removed \subseteq Rolls(d4grid)
    /\ d4pc = "done" =>
          LET left == Rolls(d4grid) \ removed IN
          /\ \A x \in left : Support(left, x) >= 4
          /\ left = PeelRounds(Rolls(d4grid))
          /\ left = PeelLast(Rolls(d4grid))
          /\ d4result = Cardinality(Rolls(d4grid)) - Cardinality(left)

\* C20: part_2 returns, after at most one iteration of its loop per roll;
\* every insertion into removed is of a roll with fewer than 4 roll
\* neighbours left at that moment; at the return no roll left has fewer than
\* 4 rolls left around it, and what is left (hence the count) is what
\* removal in rounds and removal one at a time in another order leave.
C20_RemovalReachesFixpoint == D4Terminates /\ D4Safe

C20_Witness ==
    /\ d4pc = "done"
    /\ \E k \in 1..Len(d4log) : d4log[k].live = 3 /\ roll_neighbors(d4grid, d4log[k].pos) > 4
    /\ d4result > 4
    /\ d4result < Cardinality(Rolls(d4grid))
    /\ d4steps = d4result

(***************************************************************************)
(* day_09.rs: part_2(points), on the Grid and the UnionFind of shared.rs.  *)
(* xs and ys are the sorted Vecs as sequences; the indices the code        *)
(* computes are 0-based, so index k of xs is xs[k + 1].                    *)
(***************************************************************************)
\* Longest side of the rectangles and the arm of the L shapes explored.
MaxSide == 3

D9Point_new(x, y) == [x |-> x, y |-> y]

Point_area(self, other) ==
    LET dx == abs_diff(self.x, other.x) + 1
        dy == abs_diff(self.y, other.y) + 1
    IN dx * dy

Pos_new(row, col) == [row |-> row, col |-> col]

Grid_new(data, width, height) == [data |-> data, width |-> width, height |-> height]

\* Grid::get_index; -1 stands for None.
Grid_get_index(g, pos) ==
    IF pos.row < g.height \/ pos.col < g.width
    THEN pos.row * g.width + pos.col
    ELSE -1

\* Index<Pos> for Grid, for a position whose index is within data.
Grid_get(g, pos) == g.data[Grid_get_index(g, pos)]

\* IndexMut<Pos> for Grid followed by the store.
Grid_set(g, pos, v) == [g EXCEPT !.data[Grid_get_index(g, pos)] = v]

\* BTreeSet::into_iter().collect(): the elements in ascending order.
RECURSIVE into_sorted_vec(_)
into_sorted_vec(S) ==
    IF S = {} THEN <<>>
    ELSE LET least == CHOOSE m \in S : \A e \in S : m <= e
         IN <<least>> \o into_sorted_vec(S \ {least})

\* Lines 85-96.
compress(pts, axis) ==
    into_sorted_vec({0} \cup {pts[k][axis] : k \in 1..Len(pts)}
                        \cup {pts[k][axis] + 1 : k \in 1..Len(pts)})

\* slice::partition_point(|&x| x < val) on a sorted Vec.
partition_point(v, val) == Cardinality({k \in 1..Len(v) : v[k] < val})

usize_max(a, b) == IF a < b THEN b ELSE a

\* Lines 99-113: the cells one vertex pair marks.
segment_cells(xs, ys, p1, p2) ==
    IF p1.x = p2.x
    THEN LET xi == partition_point(xs, p1.x)
             yi1 == partition_point(ys, p1.y)
             yi2 == partition_point(ys, p2.y)
         IN {Pos_new(yi, xi) : yi \in usize_min(yi1, yi2)..usize_max(yi1, yi2)}
    ELSE IF p1.y = p2.y
    THEN LET yi == partition_point(ys, p1.y)
             xi1 == partition_point(xs, p1.x)
             xi2 == partition_point(xs, p2.x)
         IN {Pos_new(yi, xi) : xi \in usize_min(xi1, xi2)..usize_max(xi1, xi2)}
    ELSE {}

\* Variant of the outline pass that pairs the vertices by zip(skip(1)),
\* without cycle(): the last vertex has no successor.
draw_outline_NoWrap(xs, ys, pts) ==
    LET n == Len(pts)
        g == Grid_new([ix \in 0..(Len(xs) * Len(ys) - 1) |-> 0], Len(xs), Len(ys))
        cells == UNION {segment_cells(xs, ys, pts[k], pts[k + 1]) : k \in 1..(n - 1)}
    IN [g EXCEPT !.data = [ix \in DOMAIN g.data |->
                              IF \E c \in cells : Grid_get_index(g, c) = ix
                              THEN 1 ELSE g.data[ix]]]

\* Lines 97-114: the zeroed grid with every vertex paired with its cyclic
\* successor; every store writes 1, so the order of the stores is immaterial.
draw_outline(xs, ys, pts) ==
    LET n == Len(pts)
        g == Grid_new([ix \in 0..(Len(xs) * Len(ys) - 1) |-> 0], Len(xs), Len(ys))
        cells == UNION {segment_cells(xs, ys, pts[k], pts[(k % n) + 1]) : k \in 1..n}
    IN [g EXCEPT !.data = [ix \in DOMAIN g.data |->
                              IF \E c \in cells : Grid_get_index(g, c) = ix
                              THEN 1 ELSE g.data[ix]]]

\* Lines 118-138: the body of the sweep for cell ix.
flood_cell(g, u, ix) ==
    LET yi == ix \div g.width
        xi == ix % g.width
        val == Grid_get(g, Pos_new(yi, xi))
        u1 == IF yi > 0 /\ Grid_get(g, Pos_new(yi - 1, xi)) = val
              THEN UnionFind_union(u, (yi - 1) * g.width + xi, ix).uf
              ELSE u
        u2 == IF xi > 0 /\ Grid_get(g, Pos_new(yi, xi - 1)) = val
              THEN UnionFind_union(u1, yi * g.width + xi - 1, ix).uf
              ELSE u1
    IN IF val = 0 /\ (xi = 0 \/ xi = g.width - 1 \/ yi = 0 \/ yi = g.height - 1)
       THEN UnionFind_union(u2, 0, ix).uf
       ELSE u2

\* Lines 140-142.
union_corners(g, u) ==
    LET u1 == UnionFind_union(u, 0, g.width - 1).uf
        u2 == UnionFind_union(u1, 0, (g.height - 1) * g.width).uf
    IN UnionFind_union(u2, 0, g.height * g.width - 1).uf

\* Iterator::find, as the first of the roots kept by its test; -1 stands
\* for None.
first_root(kept) == IF kept = <<>> THEN -1 ELSE kept[1][1]

\* Lines 144-148.
find_edge_root(u, g) ==
    first_root(SelectSeq(UnionFind_roots(u),
                         LAMBDA r : Grid_get(g, Pos_new(r[1] \div g.width,
                                                        r[1] % g.width)) = 1))

\* Lines 149-153.
find_inside_root(u, outside_root, edge_root) ==
    first_root(SelectSeq(UnionFind_roots(u),
                         LAMBDA r : r[1] # outside_root /\ r[1] # edge_root))

\* Lines 154-162. find compresses paths and leaves the roots as they are, so
\* every find is made on the same uf.
promote(g, u, inside_root) ==
    [g EXCEPT !.data = [index \in DOMAIN g.data |->
                           IF UnionFind_find(u, index).ret = inside_root
                           THEN 1 ELSE g.data[index]]]

\* zip(v[1..].iter().chain([v.last()])) at 0-based index k.
next_coord(v, k) == IF k + 2 <= Len(v) THEN v[k + 2] ELSE v[Len(v)]

\* Variant of the prefix-sum pass that does not subtract the upper-left cell.
RECURSIVE prefix_from_NoUpperLeft(_, _, _, _)
prefix_from_NoUpperLeft(g, xs, ys, ix) ==
    IF ix >= g.width * g.height THEN g
    ELSE LET yi == ix \div g.width
             xi == ix % g.width
             pos == Pos_new(yi, xi)
             own == (IF Grid_get(g, pos) > 0 THEN 1 ELSE 0)
                        * (next_coord(ys, yi) - ys[yi + 1])
                        * (next_coord(xs, xi) - xs[xi + 1])
             sum == IF xi > 0
                    THEN own + Grid_get(g, Pos_new(yi, xi - 1))
                         + (IF yi > 0
                            THEN Grid_get(g, Pos_new(yi - 1, xi))
                            ELSE 0)
                    ELSE IF yi > 0
                    THEN own + Grid_get(g, Pos_new(yi - 1, xi))
                    ELSE own
         IN prefix_from_NoUpperLeft(Grid_set(g, pos, sum), xs, ys, ix + 1)

\* Lines 163-186: the prefix-sum pass from cell ix on.
RECURSIVE prefix_from(_, _, _, _)
prefix_from(g, xs, ys, ix) ==
    IF ix >= g.width * g.height THEN g
    ELSE LET yi == ix \div g.width
             xi == ix % g.width
             pos == Pos_new(yi, xi)
             own == (IF Grid_get(g, pos) > 0 THEN 1 ELSE 0)
                        * (next_coord(ys, yi) - ys[yi + 1])
                        * (next_coord(xs, xi) - xs[xi + 1])
             sum == IF xi > 0
                    THEN own + Grid_get(g, Pos_new(yi, xi - 1))
                         + (IF yi > 0
                            THEN Grid_get(g, Pos_new(yi - 1, xi))
                                 - Grid_get(g, Pos_new(yi - 1, xi - 1))
                            ELSE 0)
                    ELSE IF yi > 0
                    THEN own + Grid_get(g, Pos_new(yi - 1, xi))
                    ELSE own
         IN prefix_from(Grid_set(g, pos, sum), xs, ys, ix + 1)

\* Lines 197-206. With yi1 = 0 the usize yi1 - 1 overflows: a build with
\* overflow checks panics there, a build without them wraps to usize::MAX,
\* get_index accepts the position because its column is in range, and the
\* index it computes is past the end of data, so the Vec access panics.
rect_sum(g, xi1, yi1, xi2, yi2) ==
    LET corner == Grid_get(g, Pos_new(yi2, xi2)) IN
    IF xi1 > 0
    THEN IF yi2 > 0
         THEN IF yi1 = 0
              THEN [panic |-> TRUE, sum |-> 0]
              ELSE [panic |-> FALSE,
                    sum |-> corner + Grid_get(g, Pos_new(yi1 - 1, xi1 - 1))
                                   - Grid_get(g, Pos_new(yi1 - 1, xi2))
                                   - Grid_get(g, Pos_new(yi2, xi1 - 1))]
         ELSE [panic |-> FALSE, sum |-> corner - Grid_get(g, Pos_new(yi2, xi1 - 1))]
    ELSE IF yi1 > 0
    THEN [panic |-> FALSE, sum |-> corner - Grid_get(g, Pos_new(yi1 - 1, xi2))]
    ELSE [panic |-> FALSE, sum |-> corner]

\* The inputs explored: rectangles and L shapes at the offsets below, the
\* polygon of tests::EXAMPLE1, a polygon of two rooms joined by a corridor two
\* tiles thick, a triangle (its closing pair is neither horizontal nor
\* vertical), and the lists of fewer than three vertices.
D9Offsets == {0, 1}

Rectangle(x0, y0, w, h) ==
    <<D9Point_new(x0, y0), D9Point_new(x0 + w, y0),
      D9Point_new(x0 + w, y0 + h), D9Point_new(x0, y0 + h)>>

LShape(x0, y0, a) ==
    <<D9Point_new(x0, y0), D9Point_new(x0 + 2 * a, y0),
      D9Point_new(x0 + 2 * a, y0 + a), D9Point_new(x0 + a, y0 + a),
      D9Point_new(x0 + a, y0 + 2 * a), D9Point_new(x0, y0 + 2 * a)>>

TwoRooms ==
    <<D9Point_new(1, 1), D9Point_new(9, 1), D9Point_new(9, 4), D9Point_new(6, 4),
      D9Point_new(6, 2), D9Point_new(3, 2), D9Point_new(3, 3), D9Point_new(1, 3)>>

D9Example1 ==
    <<D9Point_new(7, 1), D9Point_new(11, 1), D9Point_new(11, 7), D9Point_new(9, 7),
      D9Point_new(9, 5), D9Point_new(2, 5), D9Point_new(2, 3), D9Point_new(7, 3)>>

Triangle == <<D9Point_new(1, 1), D9Point_new(3, 1), D9Point_new(3, 3)>>

D9Rectangles ==
    {Rectangle(x0, y0, w, h) : x0 \in D9Offsets, y0 \in D9Offsets,
                               w \in 1..MaxSide, h \in 1..MaxSide}

D9Polygons ==
    D9Rectangles
    \cup {LShape(x0, y0, a) : x0 \in D9Offsets, y0 \in D9Offsets, a \in 1..MaxSide}
    \cup {TwoRooms, D9Example1}

D9Inputs ==
    D9Polygons
    \cup {Triangle, <<>>, <<D9Point_new(1, 1)>>,
          <<D9Point_new(1, 1), D9Point_new(3, 1)>>}

\* The roots of u, other than outside_root, whose set holds no outline cell.
Candidates(u, g, outside_root) ==
    {r \in DOMAIN u.nodes :
        /\ u.nodes[r].parent = r
        /\ r # outside_root
        /\ \A ix \in DOMAIN u.nodes : UnionFind_find(u, ix).ret = r => g.data[ix] = 0}

d9Frame == <<ufvars, d8vars, lcvars, d1vars, d4vars, morevars>>

D9Init ==
    /\ d9points \in D9Inputs
    /\ d9xs = <<>>
    /\ d9ys = <<>>
    /\ d9grid = [data |-> <<>>, width |-> 0, height |-> 0]
    /\ d9uf = [nodes |-> <<>>, num_roots |-> 0]
    /\ d9ix = 0
    /\ d9roots = <<>>
    /\ max_area = 0
    /\ d9i = 0
    /\ d9j = 0
    /\ d9pc = "start"
    /\ d9result = 0
    /\ d9candidates = {}
    /\ d9mask = <<>>
    /\ d9last = <<>>
    /\ UFIdle
    /\ D8Idle
    /\ LCIdle
    /\ D1Idle
    /\ D4Idle
    /\ MoreIdle

\* Lines 85-115.
D9Compress ==
    /\ d9pc = "start"
    /\ LET xs == compress(d9points, "x")
           ys == compress(d9points, "y")
       IN /\ d9xs' = xs
          /\ d9ys' = ys
          /\ d9grid' = draw_outline(xs, ys, d9points)
          /\ d9uf' = UnionFind_new(Len(xs) * Len(ys))
    /\ d9ix' = 0
    /\ d9pc' = "flood"
    /\ UNCHANGED <<d9points, d9roots, max_area, d9i, d9j, d9result,
                   d9candidates, d9mask, d9last, d9Frame>>

\* Lines 116-139: one cell of the sweep.
D9FloodCell ==
    /\ d9pc = "flood"
    /\ d9ix < d9grid.width * d9grid.height
    /\ d9uf' = flood_cell(d9grid, d9uf, d9ix)
    /\ d9ix' = d9ix + 1
    /\ UNCHANGED <<d9points, d9xs, d9ys, d9grid, d9roots, max_area, d9i, d9j, d9pc,
                   d9result, d9candidates, d9mask, d9last, d9Frame>>

\* Lines 140-142, after the last cell.
D9Corners ==
    /\ d9pc = "flood"
    /\ d9ix >= d9grid.width * d9grid.height
    /\ d9uf' = union_corners(d9grid, d9uf)
    /\ d9pc' = "roots"
    /\ UNCHANGED <<d9points, d9xs, d9ys, d9grid, d9ix, d9roots, max_area, d9i, d9j,
                   d9result, d9candidates, d9mask, d9last, d9Frame>>

\* Line 143.
D9OutsideRoot ==
    /\ d9pc = "roots"
    /\ d9roots = <<>>
    /\ LET f == UnionFind_find(d9uf, 0)
       IN /\ d9uf' = f.uf
          /\ d9roots' = [outside_root |-> f.ret]
    /\ UNCHANGED <<d9points, d9xs, d9ys, d9grid, d9ix, max_area, d9i, d9j, d9pc,
                   d9result, d9candidates, d9mask, d9last, d9Frame>>

\* Lines 144-153; the two unwrap calls panic on None.
D9PickRoots ==
    /\ d9pc = "roots"
    /\ d9roots # <<>>
    /\ LET outside_root == d9roots.outside_root
           edge_root == find_edge_root(d9uf, d9grid)
           inside_root == IF edge_root = -1 THEN -1
                          ELSE find_inside_root(d9uf, outside_root, edge_root)
       IN /\ d9roots' = [outside_root |-> outside_root, edge_root |-> edge_root,
                         inside_root |-> inside_root]
          /\ d9pc' = IF inside_root = -1 THEN "panic" ELSE "promote"
    /\ d9candidates' = Candidates(d9uf, d9grid, d9roots.outside_root)
    /\ UNCHANGED <<d9points, d9xs, d9ys, d9grid, d9uf, d9ix, max_area, d9i, d9j,
                   d9result, d9mask, d9last, d9Frame>>

\* Lines 154-162.
D9Promote ==
    /\ d9pc = "promote"
    /\ d9grid' = promote(d9grid, d9uf, d9roots.inside_root)
    /\ d9mask' = d9grid'.data
    /\ d9pc' = "prefix"
    /\ UNCHANGED <<d9points, d9xs, d9ys, d9uf, d9ix, d9roots, max_area, d9i, d9j,
                   d9result, d9candidates, d9last, d9Frame>>

\* Lines 163-187.
D9Prefix ==
    /\ d9pc = "prefix"
    /\ d9grid' = prefix_from(d9grid, d9xs, d9ys, 0)
    /\ max_area' = 0
    /\ d9i' = 1
    /\ d9j' = 2
    /\ d9pc' = "query"
    /\ UNCHANGED <<d9points, d9xs, d9ys, d9uf, d9ix, d9roots, d9result,
                   d9candidates, d9mask, d9last, d9Frame>>

\* Lines 188-211: the body of the inner loop for the pair (d9i, d9j), and the
\* step to the next pair.
D9Query ==
    /\ d9pc = "query"
    /\ d9j <= Len(d9points)
    /\ LET p1 == d9points[d9i]
           p2 == d9points[d9j]
           xa == partition_point(d9xs, p1.x)
           ya == partition_point(d9ys, p1.y)
           xb == partition_point(d9xs, p2.x)
           yb == partition_point(d9ys, p2.y)
           xi1 == usize_min(xa, xb)
           xi2 == usize_max(xa, xb)
           yi1 == usize_min(ya, yb)
           yi2 == usize_max(ya, yb)
           expected_area == Point_area(p1, p2)
           q == rect_sum(d9grid, xi1, yi1, xi2, yi2)
       IN /\ d9last' = [i |-> d9i, j |-> d9j, xi1 |-> xi1, yi1 |-> yi1,
                        xi2 |-> xi2, yi2 |-> yi2, panic |-> q.panic,
                        grid_sum |-> q.sum,
                        accepted |-> ~q.panic /\ q.sum = expected_area]
          /\ max_area' = IF ~q.panic /\ q.sum = expected_area
                         THEN usize_max(max_area, expected_area)
                         ELSE max_area
          /\ d9pc' = IF q.panic THEN "panic" ELSE "query"
    /\ IF d9j < Len(d9points)
       THEN d9i' = d9i /\ d9j' = d9j + 1
       ELSE d9i' = d9i + 1 /\ d9j' = d9i + 2
    /\ UNCHANGED <<d9points, d9xs, d9ys, d9grid, d9uf, d9ix, d9roots, d9result,
                   d9candidates, d9mask, d9Frame>>

\* Line 212.
D9Return ==
    /\ d9pc = "query"
    /\ d9j > Len(d9points)
    /\ d9result' = max_area
    /\ d9pc' = "done"
    /\ UNCHANGED <<d9points, d9xs, d9ys, d9grid, d9uf, d9ix, d9roots, max_area,
                   d9i, d9j, d9candidates, d9mask, d9last, d9Frame>>

D9Next ==
    \/ D9Compress
    \/ D9FloodCell
    \/ D9Corners
    \/ D9OutsideRoot
    \/ D9PickRoots
    \/ D9Promote
    \/ D9Prefix
    \/ D9Query
    \/ D9Return

SpecDay9 == D9Init /\ [][D9Next]_vars

(***************************************************************************)
(* Vocabulary of the day 9 properties, from the geometry of the tiles      *)
(* alone: a tile is a point with integer coordinates.                      *)
(***************************************************************************)
Successor(pts, k) == pts[(k % Len(pts)) + 1]

Between(a, v, b) == (a <= v /\ v <= b) \/ (b <= v /\ v <= a)

OnSegment(t, p, q) ==
    \/ p.x = q.x /\ t.x = p.x /\ Between(p.y, t.y, q.y)
    \/ p.y = q.y /\ t.y = p.y /\ Between(p.x, t.x, q.x)

Box(p, q) ==
    {t \in [x : usize_min(p.x, q.x)..usize_max(p.x, q.x),
            y : usize_min(p.y, q.y)..usize_max(p.y, q.y)] : TRUE}

\* The corners of the bounding box of the vertices.
BoxLow(pts) ==
    D9Point_new(CHOOSE v \in {pts[k].x : k \in 1..Len(pts)} : \A k \in 1..Len(pts) : v <= pts[k].x,
                CHOOSE v \in {pts[k].y : k \in 1..Len(pts)} : \A k \in 1..Len(pts) : v <= pts[k].y)

BoxHigh(pts) ==
    D9Point_new(CHOOSE v \in {pts[k].x : k \in 1..Len(pts)} : \A k \in 1..Len(pts) : v >= pts[k].x,
                CHOOSE v \in {pts[k].y : k \in 1..Len(pts)} : \A k \in 1..Len(pts) : v >= pts[k].y)

Outline(pts) ==
    {t \in Box(BoxLow(pts), BoxHigh(pts)) :
        \E k \in 1..Len(pts) : OnSegment(t, pts[k], Successor(pts, k))}

\* The vertical edges crossed by the ray from t towards smaller x, an edge
\* counting from its lower end inclusive to its upper end exclusive.
Crossings(pts, t) ==
    {k \in 1..Len(pts) :
        LET p == pts[k]
            q == Successor(pts, k)
        IN /\ p.x = q.x
           /\ p.x < t.x
           /\ usize_min(p.y, q.y) <= t.y
           /\ t.y < usize_max(p.y, q.y)}

InsideOrOutline(pts) ==
    LET outline == Outline(pts)
    IN outline \cup {t \in Box(BoxLow(pts), BoxHigh(pts)) \ outline :
                        Cardinality(Crossings(pts, t)) % 2 = 1}

\* The pairs of distinct vertices whose bounding rectangle holds only
\* inside-or-outline tiles, and the largest area among them (0 if none).
QualifyingPairs(pts) ==
    LET tiles == InsideOrOutline(pts)
    IN {pr \in (1..Len(pts)) \X (1..Len(pts)) :
           /\ pr[1] < pr[2]
           /\ pts[pr[1]] # pts[pr[2]]
           /\ Box(pts[pr[1]], pts[pr[2]]) \subseteq tiles}

LargestInside(pts) ==
    LET areas == {Point_area(pts[pr[1]], pts[pr[2]]) : pr \in QualifyingPairs(pts)}
    IN IF areas = {} THEN 0 ELSE CHOOSE a \in areas : \A b \in areas : b <= a

\* The polygon fills its bounding box.
FillsBox(pts) == Box(BoxLow(pts), BoxHigh(pts)) \subseteq InsideOrOutline(pts)

\* The true-coordinate area of the cells <<row, column>> of the set cells
\* that have value 1 in mask.
RECURSIVE CellsArea(_, _, _, _)
CellsArea(mask, xs, ys, cells) ==
    IF cells = {} THEN 0
    ELSE LET c == CHOOSE c \in cells : TRUE
         IN mask[c[1] * Len(xs) + c[2]]
                * (next_coord(ys, c[1]) - ys[c[1] + 1])
                * (next_coord(xs, c[2]) - xs[c[2] + 1])
            + CellsArea(mask, xs, ys, cells \ {c})

MaskArea(mask, xs, ys, xi1, yi1, xi2, yi2) ==
    CellsArea(mask, xs, ys, (yi1..yi2) \X (xi1..xi2))

\* C14: on every polygon part_2 returns, and what it returns is the largest
\* (|dx|+1)*(|dy|+1) over the pairs of distinct vertices whose bounding
\* rectangle holds only inside-or-outline tiles, 0 if there is none.
C14_LargestInsideRectangle ==
    d9points \in D9Polygons =>
        /\ d9pc # "panic"
        /\ d9pc = "done" => d9result = LargestInside(d9points)

\* C15: on a polygon, the query on a pair of vertices that spans the
\* polygon's bounding box is made and accepts the box exactly when the
\* polygon fills it (thin rectangles and rectangles at coordinate 0
\* included).
C15_BoundingBoxQuery ==
    d9points \in D9Polygons =>
        /\ d9pc # "panic"
        /\ d9last # <<>> =>
              (Box(d9points[d9last.i], d9points[d9last.j])
                   = Box(BoxLow(d9points), BoxHigh(d9points))
               => (d9last.accepted <=> FillsBox(d9points)))

\* C16: no query reads a cell at index -1 (yi1 - 1 or xi1 - 1 below 0), and
\* the sum it computes is the true-coordinate area of the cells with value 1
\* in rows yi1..yi2 and columns xi1..xi2.
C16_QueryFirstRowFirstColumn ==
    d9last # <<>> =>
        /\ ~d9last.panic
        /\ d9last.grid_sum = MaskArea(d9mask, d9xs, d9ys, d9last.xi1, d9last.yi1,
                                      d9last.xi2, d9last.yi2)

\* C17: when the classification leaves no component, or more than one, that
\* is neither the outside nor the outline, part_2 stops with an error: it
\* does not go on to promote one of them.
C17_AmbiguousTopologyReported ==
    d9pc \in {"promote", "prefix", "query", "done"} => Cardinality(d9candidates) = 1

\* The tile at the low corner of the compressed cell ix, and the tiles of the
\* cell: the last column and the last row lie past every vertex and are
\* stood for by their low tiles.
LowTile(xs, ys, ix) == D9Point_new(xs[(ix % Len(xs)) + 1], ys[(ix \div Len(xs)) + 1])

SpanHigh(v, k) == IF k + 2 <= Len(v) THEN v[k + 2] - 1 ELSE v[k + 1]

CellTiles(xs, ys, ix) ==
    [x : xs[(ix % Len(xs)) + 1]..SpanHigh(xs, ix % Len(xs)),
     y : ys[(ix \div Len(xs)) + 1]..SpanHigh(ys, ix \div Len(xs))]

\* The root above cell i, by its parent links, and the cells under root r.
RECURSIVE CellRoot(_, _)
CellRoot(u, i) == IF IsRoot(u, i) THEN i ELSE CellRoot(u, u.nodes[i].parent)

Component(u, r) == {i \in Elems(u) : CellRoot(u, i) = r}

\* The cells with value 1 in the cell data.
Marked(data) == {ix \in DOMAIN data : data[ix] = 1}

\* C21: on a simple closed rectilinear polygon, after the sweep and the
\* corner unions the union-find has exactly three components: the one of
\* cell 0, one that holds exactly the outline cells, and one more.
C21_ThreeComponents ==
    d9pc = "roots" /\ d9points \in D9Polygons =>
        /\ Cardinality(RootSet(d9uf)) = 3
        /\ \E e \in RootSet(d9uf) \ {CellRoot(d9uf, 0)} :
               Component(d9uf, e) = Marked(d9grid.data)

\* C22: on a simple rectilinear polygon, between the promotion and the
\* prefix-sum pass every compressed cell holds 1 exactly when all its tiles
\* are inside or on the outline and 0 exactly when none of them is.
C22_InteriorMask ==
    d9pc = "prefix" /\ d9points \in D9Polygons =>
        LET inside == InsideOrOutline(d9points)
        IN \A ix \in DOMAIN d9mask :
               LET tiles == CellTiles(d9xs, d9ys, ix)
               IN /\ d9mask[ix] = 1 <=> tiles \subseteq inside
                  /\ d9mask[ix] = 0 <=> tiles \cap inside = {}

\* C23: during the sweep and the corner unions, for every vertex list, no
\* component of the union-find holds both a cell of value 1 and a cell of
\* value 0.
C23_ComponentsKeepValue ==
    d9pc \in {"flood", "roots"} =>
        \A ix \in Elems(d9uf) : d9grid.data[ix] = d9grid.data[CellRoot(d9uf, ix)]

\* C24: after the outline pass a compressed cell holds 1 exactly when its
\* low tile is on the segment of some vertex and its cyclic successor (the
\* last vertex with the first) that is horizontal or vertical; every tile
\* of such a segment is in a cell that holds 1; pairs that are neither
\* horizontal nor vertical mark nothing.
C24_OutlineCells ==
    d9pc = "flood" =>
        /\ \A ix \in DOMAIN d9grid.data :
               d9grid.data[ix] = 1 <=>
                   \E k \in 1..Len(d9points) :
                       OnSegment(LowTile(d9xs, d9ys, ix), d9points[k],
                                 Successor(d9points, k))
        /\ d9points # <<>> =>
               Outline(d9points)
                   \subseteq UNION {CellTiles(d9xs, d9ys, ix) : ix \in Marked(d9grid.data)}

\* A cell marked by the closing pair alone.
C24_Witness ==
    /\ d9pc = "flood"
    /\ Len(d9points) = 4
    /\ \E ix \in Marked(d9grid.data) :
           LET t == LowTile(d9xs, d9ys, ix)
           IN /\ OnSegment(t, d9points[4], d9points[1])
              /\ \A k \in 1..3 : ~OnSegment(t, d9points[k], d9points[k + 1])

\* A pair that is neither horizontal nor vertical, and an unmarked cell
\* between its endpoints.
C24_WitnessDiagonal ==
    /\ d9pc = "flood"
    /\ d9points = Triangle
    /\ \E ix \in DOMAIN d9grid.data :
           /\ LowTile(d9xs, d9ys, ix) = D9Point_new(2, 2)
           /\ d9grid.data[ix] = 0

\* C25: after the prefix-sum pass the cell (yi, xi) holds the sum over the
\* cells (r <= yi, c <= xi) of mask(r, c) * (ys[r+1] - ys[r]) * (xs[c+1] -
\* xs[c]), the last row and the last column counting 0, the mask being the
\* copy of the cell data taken before the pass.
C25_PrefixSumTable ==
    d9pc = "query" =>
        \A ix \in DOMAIN d9grid.data :
            d9grid.data[ix] = MaskArea(d9mask, d9xs, d9ys, 0, 0,
                                       ix % Len(d9xs), ix \div Len(d9xs))

\* A cell of the mask whose upper-left neighbour holds a positive sum.
C25_Witness ==
    /\ d9pc = "query"
    /\ \E ix \in DOMAIN d9grid.data :
           /\ ix % Len(d9xs) > 0
           /\ ix \div Len(d9xs) > 0
           /\ d9mask[ix] = 1
           /\ d9grid.data[ix - Len(d9xs) - 1] > 0
           /\ d9grid.data[ix] > d9grid.data[ix - 1]
           /\ d9grid.data[ix] > d9grid.data[ix - Len(d9xs)]

\* tests::test_part_2.
D9ExampleAnswer == d9points = D9Example1 /\ d9pc = "done" => d9result = 24

(***************************************************************************)
(* shared.rs: Index<Pos> and IndexMut<Pos> of Grid, on a grid whose cells  *)
(* hold distinct values.                                                   *)
(***************************************************************************)
\* Largest width and height of the grids indexed.
MaxDim == 3

\* Lines 57-71: the expect on get_index, then the access to data, which
\* panics on its own when the index is not one of data. panic is "" when
\* the access is made.
Grid_index_pos(g, pos) ==
    LET index == Grid_get_index(g, pos)
    IN IF index = -1
       THEN [panic |-> "index out of range", index |-> index]
       ELSE IF index \notin DOMAIN g.data
       THEN [panic |-> "index out of bounds", index |-> index]
       ELSE [panic |-> "", index |-> index]

gxFrame == <<ufvars, d8vars, lcvars, d1vars, d4vars, d9vars, dqvars, d3vars>>

GXInit ==
    /\ \E w \in 1..MaxDim, h \in 1..MaxDim :
          /\ gxgrid = Grid_new([ix \in 0..(w * h - 1) |-> ix + 10], w, h)
          /\ gxpos \in {Pos_new(row, col) : row \in 0..(h + 1), col \in 0..(w + 1)}
    /\ gxpc = "start"
    /\ gxbefore = gxgrid
    /\ gxout = <<>>
    /\ UFIdle
    /\ D8Idle
    /\ LCIdle
    /\ D1Idle
    /\ D4Idle
    /\ D9Idle
    /\ DQIdle
    /\ D3Idle

\* Lines 57-64: grid[pos] read.
GXIndex ==
    /\ gxpc = "start"
    /\ LET r == Grid_index_pos(gxgrid, gxpos)
       IN gxout' = [op |-> "index", panic |-> r.panic, index |-> r.index,
                    value |-> IF r.panic = "" THEN gxgrid.data[r.index] ELSE 0]
    /\ gxpc' = "done"
    /\ UNCHANGED <<gxgrid, gxpos, gxbefore, gxFrame>>

\* Lines 66-71: grid[pos] = 0.
GXIndexMut ==
    /\ gxpc = "start"
    /\ LET r == Grid_index_pos(gxgrid, gxpos)
       IN /\ gxout' = [op |-> "index_mut", panic |-> r.panic, index |-> r.index,
                       value |-> 0]
          /\ gxgrid' = IF r.panic = ""
                       THEN [gxgrid EXCEPT !.data[r.index] = 0]
                       ELSE gxgrid
    /\ gxpc' = "done"
    /\ UNCHANGED <<gxpos, gxbefore, gxFrame>>

GXNext ==
    \/ GXIndex
    \/ GXIndexMut

SpecGrid == GXInit /\ [][GXNext]_vars

\* C27: indexing the grid, for reading or for writing, with a position
\* whose row is >= height or whose column is >= width aborts with 'index out
\* of range': no value is returned and no cell is modified.
C27_OutOfRangeAborts ==
    gxpc = "done" /\ (gxpos.row >= gxgrid.height \/ gxpos.col >= gxgrid.width) =>
        /\ gxout.panic = "index out of range"
        /\ gxgrid = gxbefore

(***************************************************************************)
(* day_08.rs: Point::dist_sq at the width of its types. A u32 is the       *)
(* sequence of its 4 bytes and a u64 that of its 8 bytes, least            *)
(* significant byte first.                                                 *)
(***************************************************************************)
\* a < b for two byte sequences of one length.
bytes_less(a, b) ==
    \E k \in 1..Len(a) : a[k] < b[k] /\ \A j \in (k + 1)..Len(a) : a[j] = b[j]

\* a - b from byte k on for a >= b, with the borrow of the bytes below.
RECURSIVE bytes_sub_from(_, _, _, _)
bytes_sub_from(a, b, k, borrow) ==
    IF k > Len(a) THEN <<>>
    ELSE LET d == a[k] - b[k] - borrow
         IN <<(d + 256) % 256>> \o bytes_sub_from(a, b, k + 1, IF d < 0 THEN 1 ELSE 0)

\* Column sums to bytes: the carries from byte k on.
RECURSIVE carry_from(_, _, _)
carry_from(cols, k, carry) ==
    IF k > Len(cols) THEN <<>>
    ELSE LET t == cols[k] + carry
         IN <<t % 256>> \o carry_from(cols, k + 1, t \div 256)

\* The sum of the byte products a[i] * b[j] that fall on byte k of a * b.
RECURSIVE column_sum(_, _, _, _)
column_sum(a, b, k, i) ==
    IF i > Len(a) THEN 0
    ELSE (IF k + 1 - i >= 1 /\ k + 1 - i <= Len(b) THEN a[i] * b[k + 1 - i] ELSE 0)
         + column_sum(a, b, k, i + 1)

\* The full product, Len(a) + Len(b) bytes, and the full sum of two
\* sequences of one length, one byte longer.
bytes_mul(a, b) ==
    carry_from([k \in 1..(Len(a) + Len(b)) |-> column_sum(a, b, k, 1)], 1, 0)

bytes_add(a, b) ==
    carry_from([k \in 1..(Len(a) + 1) |-> IF k <= Len(a) THEN a[k] + b[k] ELSE 0], 1, 0)

\* a with zero bytes above, n bytes in all.
bytes_widen(a, n) == a \o [k \in 1..(n - Len(a)) |-> 0]

\* u32::abs_diff.
u32_abs_diff(a, b) ==
    IF bytes_less(a, b) THEN bytes_sub_from(b, a, 1, 0) ELSE bytes_sub_from(a, b, 1, 0)

\* What fits the 8 bytes of a u64, and whether anything was left above.
u64_of(wide) ==
    [overflow |-> \E k \in 9..Len(wide) : wide[k] # 0, value |-> SubSeq(wide, 1, 8)]

u64_mul(a, b) == u64_of(bytes_mul(a, b))

u64_add(a, b) == u64_of(bytes_add(a, b))

\* Lines 30-35: (dx * dx + dy * dy) + dz * dz on u64. overflow says that
\* one of the operations did not fit; value is the wrapped result.
Point_dist_sq_u64(self, other) ==
    LET dx == bytes_widen(u32_abs_diff(self.x, other.x), 8)
        dy == bytes_widen(u32_abs_diff(self.y, other.y), 8)
        dz == bytes_widen(u32_abs_diff(self.z, other.z), 8)
        xx == u64_mul(dx, dx)
        yy == u64_mul(dy, dy)
        zz == u64_mul(dz, dz)
        xy == u64_add(xx.value, yy.value)
        xyz == u64_add(xy.value, zz.value)
    IN [overflow |-> xx.overflow \/ yy.overflow \/ zz.overflow
                         \/ xy.overflow \/ xyz.overflow,
        value |-> xyz.value]

\* The u32 coordinates explored: 0, 1, 2^31 and 2^32 - 1.
DQCoords == {<<0, 0, 0, 0>>, <<1, 0, 0, 0>>, <<0, 0, 0, 128>>, <<255, 255, 255, 255>>}

DQPoints == [x : DQCoords, y : DQCoords, z : DQCoords]

dqFrame == <<ufvars, d8vars, lcvars, d1vars, d4vars, d9vars, gxvars, d3vars>>

DQInit ==
    /\ dqself \in DQPoints
    /\ dqother \in DQPoints
    /\ dqpc = "start"
    /\ dqout = <<>>
    /\ UFIdle
    /\ D8Idle
    /\ LCIdle
    /\ D1Idle
    /\ D4Idle
    /\ D9Idle
    /\ GXIdle
    /\ D3Idle

\* Lines 30-35 with every operation in range.
DQReturn ==
    /\ dqpc = "start"
    /\ LET r == Point_dist_sq_u64(dqself, dqother)
       IN /\ ~r.overflow
          /\ dqout' = [panic |-> FALSE, ret |-> r.value]
    /\ dqpc' = "done"
    /\ UNCHANGED <<dqself, dqother, dqFrame>>

\* Lines 30-35 when an addition overflows: a build with overflow checks
\* panics, a build without them returns the wrapped sum.
DQOverflow ==
    /\ dqpc = "start"
    /\ LET r == Point_dist_sq_u64(dqself, dqother)
       IN /\ r.overflow
          /\ \/ dqout' = [panic |-> TRUE, ret |-> <<>>]
             \/ dqout' = [panic |-> FALSE, ret |-> r.value]
    /\ dqpc' = "done"
    /\ UNCHANGED <<dqself, dqother, dqFrame>>

DQNext ==
    \/ DQReturn
    \/ DQOverflow

SpecDistSq == DQInit /\ [][DQNext]_vars

\* dx^2 + dy^2 + dz^2 in full, 10 bytes.
ExactDistSq(p, q) ==
    LET dx == u32_abs_diff(p.x, q.x)
        dy == u32_abs_diff(p.y, q.y)
        dz == u32_abs_diff(p.z, q.z)
        xy == bytes_add(bytes_mul(dx, dx), bytes_mul(dy, dy))
    IN bytes_add(xy, bytes_widen(bytes_mul(dz, dz), 9))

\* C26: for every pair of points with u32 coordinates dist_sq returns, and
\* what it returns is exactly dx^2 + dy^2 + dz^2: the u64 sum does not
\* overflow.
C26_DistSqExact ==
    dqpc = "done" =>
        /\ ~dqout.panic
        /\ bytes_widen(dqout.ret, 10) = ExactDistSq(dqself, dqother)

(***************************************************************************)
(* day_03.rs: part_2(input). A line is the sequence of the values ch - b'0' *)
(* of its bytes. A u64 is the record of its decimal halves, hi * 10^6 + lo  *)
(* with lo < 10^6.                                                          *)
(***************************************************************************)
\* The 12 of line 25.
D3Keep == 12

\* A line of the free inputs has at most D3Keep + MaxExtra digits.
MaxExtra == 2

\* Variant of the scan of lines 27-33 that also stops at equal neighbours.
RECURSIVE first_lt_OrEqual(_, _)
first_lt_OrEqual(digits, i) ==
    IF i + 2 > Len(digits) THEN -1
    ELSE IF digits[i + 1] <= digits[i + 2] THEN i
    ELSE first_lt_OrEqual(digits, i + 1)

\* Lines 27-33: the 0-based index, from i on, of the first element smaller
\* than its successor; -1 when the loop ends with found_lt false.
RECURSIVE first_lt(_, _)
first_lt(digits, i) ==
    IF i + 2 > Len(digits) THEN -1
    ELSE IF digits[i + 1] < digits[i + 2] THEN i
    ELSE first_lt(digits, i + 1)

\* Vec::remove(i), i 0-based, and Vec::pop.
Vec_remove(v, i) == SubSeq(v, 1, i) \o SubSeq(v, i + 2, Len(v))

Vec_pop(v) == SubSeq(v, 1, Len(v) - 1)

\* Lines 24-37.
push_digit(digits, dig) ==
    LET pushed == Append(digits, dig)
    IN IF Len(pushed) > D3Keep
       THEN LET i == first_lt(pushed, 0)
            IN IF i # -1 THEN Vec_remove(pushed, i) ELSE Vec_pop(pushed)
       ELSE pushed

u64_zero == [hi |-> 0, lo |-> 0]

\* s * 10 + d.
fold_step(s, d) ==
    LET low == s.lo * 10 + d
    IN [hi |-> s.hi * 10 + low \div 1000000, lo |-> low % 1000000]

\* Line 39: digits.iter().copied().fold(0, |s, d| s * 10 + u64::from(d)).
RECURSIVE fold_digits(_, _)
fold_digits(digits, s) ==
    IF digits = <<>> THEN s ELSE fold_digits(Tail(digits), fold_step(s, Head(digits)))

\* Line 39: res += value.
u64_plus(a, b) ==
    [hi |-> a.hi + b.hi + (a.lo + b.lo) \div 1000000, lo |-> (a.lo + b.lo) % 1000000]

\* The lines of tests::EXAMPLE1.
D3Example1 ==
    << <<9, 8, 7, 6, 5, 4, 3, 2, 1, 1, 1, 1, 1, 1, 1>>,
       <<8, 1, 1, 1, 1, 1, 1, 1, 1, 1, 1, 1, 1, 1, 9>>,
       <<2, 3, 4, 2, 3, 4, 2, 3, 4, 2, 3, 4, 2, 7, 8>>,
       <<8, 1, 8, 1, 8, 1, 9, 1, 1, 1, 1, 2, 1, 1, 1>> >>

\* The free inputs: one line that starts with ten digits alternating between
\* two of the digits below and goes on with any digits among them.
D3Digits == {1, 5, 9}

D3Heads == {[k \in 1..10 |-> IF k % 2 = 1 THEN a ELSE b] : a \in D3Digits, b \in D3Digits}

d3Frame == <<ufvars, d8vars, lcvars, d1vars, d4vars, d9vars, dqvars, gxvars>>

D3Init ==
    /\ \/ d3input = D3Example1 /\ d3more = FALSE
       \/ d3input \in {<<h>> : h \in D3Heads} /\ d3more = TRUE
       \/ d3input \in {<<>>, << <<>> >>, << <<5, 9>>, <<>>, <<9, 5, 1>> >>} /\ d3more = FALSE
    /\ d3row = 1
    /\ d3line = <<>>
    /\ d3digits = <<>>
    /\ d3res = u64_zero
    /\ d3pc = "line"
    /\ d3added = <<>>
    /\ UFIdle
    /\ D8Idle
    /\ LCIdle
    /\ D1Idle
    /\ D4Idle
    /\ D9Idle
    /\ DQIdle
    /\ GXIdle

\* Lines 20-21: the next line, if any.
D3StartLine ==
    /\ d3pc = "line"
    /\ d3row <= Len(d3input)
    /\ d3digits' = <<>>
    /\ d3line' = <<>>
    /\ d3pc' = "char"
    /\ UNCHANGED <<d3input, d3more, d3row, d3res, d3added, d3Frame>>

\* Lines 22-37 for the next byte of a line given in full.
D3Char ==
    /\ d3pc = "char"
    /\ Len(d3line) < Len(d3input[d3row])
    /\ LET dig == d3input[d3row][Len(d3line) + 1]
       IN /\ d3line' = Append(d3line, dig)
          /\ d3digits' = push_digit(d3digits, dig)
    /\ UNCHANGED <<d3input, d3more, d3row, d3res, d3pc, d3added, d3Frame>>

\* Lines 22-37 for a byte that follows the digits given of the last line.
D3MoreChar ==
    /\ d3pc = "char"
    /\ d3more
    /\ d3row = Len(d3input)
    /\ Len(d3line) >= Len(d3input[d3row])
    /\ Len(d3line) < D3Keep + MaxExtra
    /\ \E dig \in D3Digits :
          /\ d3line' = Append(d3line, dig)
          /\ d3digits' = push_digit(d3digits, dig)
    /\ UNCHANGED <<d3input, d3more, d3row, d3res, d3pc, d3added, d3Frame>>

\* Line 39, at the end of the line.
D3EndLine ==
    /\ d3pc = "char"
    /\ Len(d3line) >= Len(d3input[d3row])
    /\ d3added' = fold_digits(d3digits, u64_zero)
    /\ d3res' = u64_plus(d3res, d3added')
    /\ d3row' = d3row + 1
    /\ d3pc' = "line"
    /\ UNCHANGED <<d3input, d3more, d3line, d3digits, d3Frame>>

\* Line 41.
D3Return ==
    /\ d3pc = "line"
    /\ d3row > Len(d3input)
    /\ d3pc' = "done"
    /\ UNCHANGED <<d3input, d3more, d3row, d3line, d3digits, d3res, d3added, d3Frame>>

D3Next ==
    \/ D3StartLine
    \/ D3Char
    \/ D3MoreChar
    \/ D3EndLine
    \/ D3Return

SpecDay3 == D3Init /\ [][D3Next]_vars

(***************************************************************************)
(* Vocabulary of the day 3 property: the subsequences of a given length,   *)
(* their order, and the number a digit string writes.                      *)
(***************************************************************************)
\* The sets of m of the indices 1..n.
RECURSIVE Drops(_, _)
Drops(n, m) ==
    IF m = 0 THEN {{}}
    ELSE {D \cup {i} : D \in Drops(n, m - 1), i \in 1..n} \ Drops(n, m - 1)

\* s without the elements at the indices of D, from index i on.
RECURSIVE Without(_, _, _)
Without(s, D, i) ==
    IF i > Len(s) THEN <<>>
    ELSE (IF i \in D THEN <<>> ELSE <<s[i]>>) \o Without(s, D, i + 1)

Subsequences(s, k) == {Without(s, D, 1) : D \in Drops(Len(s), Len(s) - k)}

LexLeq(a, b) ==
    \/ a = b
    \/ \E k \in 1..Len(a) : a[k] < b[k] /\ \A j \in 1..(k - 1) : a[j] = b[j]

\* The number written by at most 9 digits, and by at most 15 as a u64.
RECURSIVE Written(_)
Written(c) == IF c = <<>> THEN 0 ELSE Written(SubSeq(c, 1, Len(c) - 1)) * 10 + c[Len(c)]

WrittenU64(c) ==
    IF Len(c) <= 6 THEN [hi |-> 0, lo |-> Written(c)]
    ELSE [hi |-> Written(SubSeq(c, 1, Len(c) - 6)),
          lo |-> Written(SubSeq(c, Len(c) - 5, Len(c)))]

U64Leq(a, b) == a.hi < b.hi \/ (a.hi = b.hi /\ a.lo <= b.lo)

Kept(n) == IF n < D3Keep THEN n ELSE D3Keep

\* C30: after each digit of a line the buffer digits is a subsequence of
\* length min(12, digits read) of the digits read, and no subsequence of
\* that length is lexicographically larger; and what a line adds to res is
\* the largest number written by 12 of its digits in their order (by all of
\* them if it has at most 12).
C30_LargestSubsequence ==
    /\ d3pc = "char" =>
          LET subs == Subsequences(d3line, Kept(Len(d3line)))
          IN /\ d3digits \in subs
             /\ \A c \in subs : LexLeq(c, d3digits)
    /\ d3added # <<>> /\ d3pc \in {"line", "done"} =>
          LET subs == Subsequences(d3line, Kept(Len(d3line)))
          IN /\ \E c \in subs : WrittenU64(c) = d3added
             /\ \A c \in subs : U64Leq(WrittenU64(c), d3added)

\* A line of 14 digits whose buffer is neither its first 12 digits nor its
\* last 12, with many subsequences to compare.
C30_Witness ==
    /\ d3pc = "char"
    /\ Len(d3line) = D3Keep + 2
    /\ d3digits # SubSeq(d3line, 1, D3Keep)
    /\ d3digits # SubSeq(d3line, 3, D3Keep + 2)
    /\ Cardinality(Subsequences(d3line, D3Keep)) > 20

\* tests::test_part_2.
C30_WitnessExample ==
    /\ d3pc = "done"
    /\ d3input = D3Example1
    /\ d3res = [hi |-> 3121910, lo |-> 778619]

====
